---- MODULE Spec2Model ----
(***************************************************************************)
(* A model of kernels of the repository:                                   *)
(*   - the DETR box utilities (box_iou, generalized_box_iou) and the       *)
(*     HungarianMatcher of models/detr/modeling_detr.py;                   *)
(*   - the EuclideanCodebook of models/encodec/modeling_encodec.py;        *)
(*   - the ResidualVectorQuantization / ResidualVectorQuantizer built on   *)
(*     it, and the construction of the quantizer and of EnCodecModel;      *)
(*   - the SetCriterion of models/detr/modeling_detr.py;                   *)
(*   - the clamp at the end of DetrEncoderLayer.forward;                   *)
(*   - the TokenClassificationPipeline of pipelines/token_classification;  *)
(*   - the loss part of DetrForObjectDetection.forward;                    *)
(*   - the training-style forward of the quantizer layers;                 *)
(*   - the EnCodec convolution padding and the lengths through the         *)
(*     SEANet encoder and decoder of EnCodecModel.forward.                 *)
(* Each kernel has its own state variable, initial condition, actions and  *)
(* specification (SpecGiou, SpecMatcher, SpecCodebook, SpecRVQ, SpecCodec, *)
(* SpecCriterion, SpecEncoderLayer, SpecPipeline, SpecDetection,           *)
(* SpecRvqForward, SpecAudio); a specification leaves the other kernels'   *)
(* variables at their idle value.                                          *)
(*                                                                         *)
(* Tensor values are exact rationals extended with the IEEE specials the   *)
(* code can produce: a value is a record [n, d] meaning n/d, with d = 0    *)
(* for NaN (n = 0), +Inf (n = 1) and -Inf (n = -1).  Rounding is not       *)
(* modelled, except for the float16 clamp bounds of the encoder layer.     *)
(***************************************************************************)
EXTENDS Integers, Sequences, FiniteSets, TLC

VARIABLES
    giou,      \* the generalized_box_iou call: its two box lists and its outcome
    matcher,   \* the HungarianMatcher.forward call: module weights, inputs, outcome
    cb,        \* one EuclideanCodebook: its buffers, its configuration, the last call
    rvq,       \* one ResidualVectorQuantizer: its layers' codebooks and the last call
    codec,     \* the object last constructed (a quantizer or an EnCodecModel)
    criterion, \* the SetCriterion.forward call: configuration, inputs, outcome
    encoder,   \* the end of DetrEncoderLayer.forward: hidden states before and after
    pipeline,  \* one TokenClassificationPipeline: its construction and the last call
    detection, \* the loss part of DetrForObjectDetection.forward: inputs and outcome
    audio      \* the EnCodec convolution padding and the encode / decode / forward lengths

vars == <<giou, matcher, cb, rvq, codec, criterion, encoder, pipeline, detection, audio>>

Idle == [phase |-> "idle"]

\* The kernels of the later sections are idle.
LaterIdle == detection = Idle /\ audio = Idle

OthersIdle ==
    codec = Idle /\ criterion = Idle /\ encoder = Idle /\ pipeline = Idle /\ LaterIdle

(***************************************************************************)
(* Arithmetic on tensor values                                             *)
(***************************************************************************)
Abs(x) == IF x < 0 THEN -x ELSE x

Sign(x) == IF x < 0 THEN -1 ELSE IF x = 0 THEN 0 ELSE 1

Min2(a, b) == IF a <= b THEN a ELSE b

Max2(a, b) == IF a >= b THEN a ELSE b

RECURSIVE Gcd(_, _)
Gcd(a, b) == IF b = 0 THEN a ELSE Gcd(b, a % b)

RECURSIVE SumSeq(_)
SumSeq(s) == IF s = <<>> THEN 0 ELSE Head(s) + SumSeq(Tail(s))

RECURSIVE Pow2(_)
Pow2(k) == IF k = 0 THEN 1 ELSE 2 * Pow2(k - 1)

NaN == [n |-> 0, d |-> 0]

PInf == [n |-> 1, d |-> 0]

NInf == [n |-> -1, d |-> 0]

\* The finite value n/d (d # 0), in lowest terms with a positive denominator.
Frac(n, d) ==
    LET g == Gcd(Abs(n), Abs(d))
        s == Sign(d)
    IN  [n |-> (s * n) \div g, d |-> (s * d) \div g]

Num(i) == [n |-> i, d |-> 1]

IsFinite(x) == x.d # 0

IsNaN(x) == x.d = 0 /\ x.n = 0

InfOf(s) == IF s > 0 THEN PInf ELSE NInf

\* IEEE addition: NaN is absorbing, Inf + (-Inf) is NaN.
FAdd(x, y) ==
    IF IsNaN(x) \/ IsNaN(y) THEN NaN
    ELSE IF ~IsFinite(x) /\ ~IsFinite(y) THEN (IF x.n = y.n THEN x ELSE NaN)
    ELSE IF ~IsFinite(x) THEN x
    ELSE IF ~IsFinite(y) THEN y
    ELSE Frac(x.n * y.d + y.n * x.d, x.d * y.d)

FNeg(x) == [n |-> -x.n, d |-> x.d]

FSub(x, y) == FAdd(x, FNeg(y))

\* IEEE multiplication: NaN is absorbing, 0 * Inf is NaN.
FMul(x, y) ==
    IF IsNaN(x) \/ IsNaN(y) THEN NaN
    ELSE IF ~IsFinite(x) \/ ~IsFinite(y)
         THEN (IF x.n = 0 \/ y.n = 0 THEN NaN ELSE InfOf(Sign(x.n) * Sign(y.n)))
    ELSE Frac(x.n * y.n, x.d * y.d)

\* IEEE division: 0/0 and Inf/Inf are NaN, x/0 is an infinity of x's sign.
FDiv(x, y) ==
    IF IsNaN(x) \/ IsNaN(y) THEN NaN
    ELSE IF ~IsFinite(x) THEN (IF ~IsFinite(y) THEN NaN
                               ELSE InfOf(x.n * (IF y.n < 0 THEN -1 ELSE 1)))
    ELSE IF ~IsFinite(y) THEN Num(0)
    ELSE IF y.n = 0 THEN (IF x.n = 0 THEN NaN ELSE InfOf(x.n))
    ELSE Frac(x.n * y.d, x.d * y.n)

\* x <= y on finite values.
FLeq(x, y) == x.n * y.d <= y.n * x.d

FLess(x, y) == x.n * y.d < y.n * x.d

(***************************************************************************)
(* Box utilities (corner format <<x0, y0, x1, y1>>, integer coordinates)   *)
(***************************************************************************)
\* torchvision.ops.boxes.box_area as called by box_iou: (x1 - x0) * (y1 - y0).
box_area(b) == (b[3] - b[1]) * (b[4] - b[2])

\* (rb - lt).clamp(min=0) and the product of its two components.
ClampedArea(lt1, lt2, rb1, rb2) == Max2(rb1 - lt1, 0) * Max2(rb2 - lt2, 0)

\* box_iou for one pair of boxes: the pair <<iou, union>>.
box_iou(b1, b2) ==
    LET area1 == box_area(b1)
        area2 == box_area(b2)
        inter == ClampedArea(Max2(b1[1], b2[1]), Max2(b1[2], b2[2]),
                             Min2(b1[3], b2[3]), Min2(b1[4], b2[4]))
        union == area1 + area2 - inter
    IN  <<FDiv(Num(inter), Num(union)), union>>

\* The early check of generalized_box_iou on one list of boxes.
BoxesWellFormed(boxes) ==
    \A i \in DOMAIN boxes : boxes[i][3] >= boxes[i][1] /\ boxes[i][4] >= boxes[i][2]

\* One entry of generalized_box_iou's result: iou - (area - union) / area.
GiouEntry(b1, b2) ==
    LET iu    == box_iou(b1, b2)
        iou   == iu[1]
        union == iu[2]
        area  == ClampedArea(Min2(b1[1], b2[1]), Min2(b1[2], b2[2]),
                             Max2(b1[3], b2[3]), Max2(b1[4], b2[4]))
    IN  FSub(iou, FDiv(Num(area - union), Num(area)))

\* generalized_box_iou: the two assertions, then the [N, M] matrix.
generalized_box_iou(boxes1, boxes2) ==
    IF ~BoxesWellFormed(boxes1) \/ ~BoxesWellFormed(boxes2)
    THEN [status |-> "AssertionError", value |-> <<>>]
    ELSE [status |-> "ok",
          value  |-> [i \in DOMAIN boxes1 |->
                        [j \in DOMAIN boxes2 |-> GiouEntry(boxes1[i], boxes2[j])]]]

(***************************************************************************)
(* Specification SpecGiou: generalized_box_iou on every pair of box lists  *)
(***************************************************************************)
MaxCoord == 2

Coords == 0 .. MaxCoord

\* Every corner-format box on the grid, degenerate ones included.
CornerBoxes == {<<x0, y0, x1, y1>> : x0 \in Coords, y0 \in Coords, x1 \in Coords, y1 \in Coords}

InitGiou ==
    /\ giou \in [phase : {"called"}, boxes1 : {<<b>> : b \in CornerBoxes},
                 boxes2 : {<<b>> : b \in CornerBoxes}, out : {Idle}]
    /\ matcher = Idle
    /\ cb = Idle
    /\ rvq = Idle
    /\ OthersIdle

CallGeneralizedBoxIou ==
    /\ giou.phase = "called"
    /\ giou' = [giou EXCEPT !.phase = "returned",
                            !.out = generalized_box_iou(giou.boxes1, giou.boxes2)]
    /\ UNCHANGED <<matcher, cb, rvq, codec, criterion, encoder, pipeline, detection, audio>>

NextGiou == CallGeneralizedBoxIou

SpecGiou == InitGiou /\ [][NextGiou]_vars

\* Some box of the list has a max corner coordinate below its min corner coordinate.
SomeBoxReversed(boxes) ==
    \E i \in DOMAIN boxes : boxes[i][3] < boxes[i][1] \/ boxes[i][4] < boxes[i][2]

\* C4: generalized_box_iou fails its assertion whenever some input box has a
\* max corner coordinate smaller than its min corner coordinate, and whenever
\* the assertions pass no entry of the result is NaN or infinite.
C4_AssertOrFinite ==
    giou.phase = "returned" =>
        /\ (SomeBoxReversed(giou.boxes1) \/ SomeBoxReversed(giou.boxes2))
              => giou.out.status = "AssertionError"
        /\ giou.out.status = "ok"
              => \A i \in DOMAIN giou.out.value : \A j \in DOMAIN giou.out.value[i] :
                    IsFinite(giou.out.value[i][j])

\* C5: generalized_box_iou(a, a) is 1 for every box a whose max corner is at or
\* above its min corner in both coordinates.
C5_SelfGiouIsOne ==
    (/\ giou.phase = "returned"
     /\ giou.boxes1 = giou.boxes2
     /\ BoxesWellFormed(giou.boxes1))
        => giou.out.status = "ok" /\ giou.out.value[1][1] = Num(1)


(***************************************************************************)
(* HungarianMatcher                                                        *)
(***************************************************************************)
\* Positions 1..n of a Python list of length n hold its indices 0..n-1.
RECURSIVE Concat(_)
Concat(ss) == IF ss = <<>> THEN <<>> ELSE Head(ss) \o Concat(Tail(ss))

\* softmax(-1) of one logits row.  Logits are integers counted in units of
\* ln 2, so that exp(logit) = 2^logit and every probability is a rational.
Softmax(row) ==
    LET exps == [c \in DOMAIN row |-> Pow2(row[c])]
    IN  [c \in DOMAIN row |-> Frac(exps[c], SumSeq(exps))]

\* center_to_corners_format of <<cx, cy, w, h>>: (cx - w/2, cy - h/2, cx + w/2,
\* cy + h/2).  The corners are kept doubled, <<2cx - w, ...>>, to stay in the
\* integers; box_iou and generalized_box_iou are ratios of areas, unchanged
\* when every coordinate is doubled, and the corner order test is unchanged.
center_to_corners_format(b) ==
    <<2 * b[1] - b[3], 2 * b[2] - b[4], 2 * b[1] + b[3], 2 * b[2] + b[4]>>

\* torch.cdist(., ., p=1) for one pair of rows.
L1Dist(a, b) == Abs(a[1] - b[1]) + Abs(a[2] - b[2]) + Abs(a[3] - b[3]) + Abs(a[4] - b[4])

\* Partial one-to-one assignments of size min(n, m) between rows 1..n and
\* columns 1..m, as sets of <<row, column>>: every way to give min(n, m) of
\* the rows distinct columns.
RECURSIVE Assignments(_, _)
Assignments(n, m) ==
    IF n = 0 \/ m = 0 THEN {{}}
    ELSE IF n <= m
    THEN UNION {{a \cup {<<n, j>>} : a \in {x \in Assignments(n - 1, m) :
                                              \A p \in x : p[2] # j}} : j \in 1 .. m}
    ELSE UNION {{a \cup {<<i, m>>} : a \in {x \in Assignments(n, m - 1) :
                                              \A p \in x : p[1] # i}} : i \in 1 .. n}

RECURSIVE AssignmentCost(_, _)
AssignmentCost(c, a) ==
    IF a = {} THEN Num(0)
    ELSE LET p == CHOOSE x \in a : TRUE
         IN  FAdd(c[p[1]][p[2]], AssignmentCost(c, a \ {p}))

\* The rows of an assignment in increasing order.
RECURSIVE SortedRows(_)
SortedRows(rows) ==
    IF rows = {} THEN <<>>
    ELSE LET r == CHOOSE x \in rows : \A y \in rows : x <= y
         IN  <<r>> \o SortedRows(rows \ {r})

\* The cheapest assignment of S under cost matrix c, with its cost.
RECURSIVE Cheapest(_, _)
Cheapest(c, S) ==
    LET a    == CHOOSE x \in S : TRUE
        mine == [a |-> a, cost |-> AssignmentCost(c, a)]
        rest == Cheapest(c, S \ {a})
    IN  IF S = {a} THEN mine
        ELSE IF FLeq(mine.cost, rest.cost) THEN mine ELSE rest

\* scipy.optimize.linear_sum_assignment on an n x m cost matrix c (n >= 1 rows,
\* m >= 0 columns): ValueError when an entry is NaN or infinite; otherwise a
\* minimum-cost assignment of size min(n, m), returned as (row_ind, col_ind)
\* with row_ind increasing and 0-based values.  Which optimum is returned when
\* several exist is fixed by the matrix but left open here.
linear_sum_assignment(c) ==
    LET n == Len(c)
        m == Len(c[1])
    IN  IF \E i \in 1 .. n : \E j \in 1 .. m : ~IsFinite(c[i][j])
        THEN [status |-> "ValueError", row_ind |-> <<>>, col_ind |-> <<>>]
        ELSE LET best == Cheapest(c, Assignments(n, m)).a
                 rows == SortedRows({p[1] : p \in best})
                 colOf(r) == (CHOOSE p \in best : p[1] = r)[2]
             IN  [status  |-> "ok",
                  row_ind |-> [k \in DOMAIN rows |-> rows[k] - 1],
                  col_ind |-> [k \in DOMAIN rows |-> colOf(rows[k]) - 1]]

\* sizes = [len(v["boxes"]) for v in targets] and the column offset of item i
\* in C.split(sizes, -1).
Sizes(targets) == [i \in DOMAIN targets |-> Len(targets[i].boxes)]

SplitOffset(sizes, i) == SumSeq(SubSeq(sizes, 1, i - 1))

\* CostMatrix with the GIoU term added instead of subtracted.
CostMatrixGiouSign(w, out_prob, out_bbox, tgt_ids, tgt_bbox, giouval) ==
    [r \in DOMAIN out_bbox |->
        [j \in DOMAIN tgt_bbox |->
            FAdd(FAdd(FMul(Num(w.bbox_cost), Num(L1Dist(out_bbox[r], tgt_bbox[j]))),
                      FMul(Num(w.class_cost), FNeg(out_prob[r][tgt_ids[j] + 1]))),
                 FMul(Num(w.giou_cost), giouval[r][j]))]]

\* The final cost matrix over the flattened batch: row (b-1)*num_queries + q,
\* one column per target of the whole batch.
CostMatrix(w, out_prob, out_bbox, tgt_ids, tgt_bbox, giouval) ==
    [r \in DOMAIN out_bbox |->
        [j \in DOMAIN tgt_bbox |->
            LET class_cost == FNeg(out_prob[r][tgt_ids[j] + 1])
                bbox_cost  == Num(L1Dist(out_bbox[r], tgt_bbox[j]))
                giou_cost  == FNeg(giouval[r][j])
            IN  FAdd(FAdd(FMul(Num(w.bbox_cost), bbox_cost),
                          FMul(Num(w.class_cost), class_cost)),
                     FMul(Num(w.giou_cost), giou_cost))]]

\* ItemBlock without the split: item i's queries against every target of the batch.
ItemBlockNoSplit(C, num_queries, sizes, i) ==
    [q \in 1 .. num_queries |-> C[(i - 1) * num_queries + q]]

\* c[i] for the i-th chunk c of C.split(sizes, -1): item i's queries against
\* item i's targets.
ItemBlock(C, num_queries, sizes, i) ==
    [q \in 1 .. num_queries |->
        [t \in 1 .. sizes[i] |-> C[(i - 1) * num_queries + q][SplitOffset(sizes, i) + t]]]

\* HungarianMatcher.forward.
HungarianMatcherForward(w, outputs, targets) ==
    LET bs          == Len(outputs.logits)
        num_queries == Len(outputs.logits[1])
        out_prob    == [r \in 1 .. bs * num_queries |->
                          Softmax(Concat(outputs.logits)[r])]
        out_bbox    == Concat(outputs.pred_boxes)
        tgt_ids     == Concat([i \in DOMAIN targets |-> targets[i].class_labels])
        tgt_bbox    == Concat([i \in DOMAIN targets |-> targets[i].boxes])
        g           == generalized_box_iou(
                          [r \in DOMAIN out_bbox |-> center_to_corners_format(out_bbox[r])],
                          [j \in DOMAIN tgt_bbox |-> center_to_corners_format(tgt_bbox[j])])
        C           == CostMatrix(w, out_prob, out_bbox, tgt_ids, tgt_bbox, g.value)
        sizes       == Sizes(targets)
        indices     == [i \in 1 .. bs |->
                          linear_sum_assignment(ItemBlock(C, num_queries, sizes, i))]
    IN  IF g.status # "ok" THEN [status |-> g.status, indices |-> <<>>]
        ELSE IF \E i \in 1 .. bs : indices[i].status # "ok"
        THEN [status |-> "ValueError", indices |-> <<>>]
        ELSE [status  |-> "ok",
              indices |-> [i \in 1 .. bs |-> <<indices[i].row_ind, indices[i].col_ind>>]]

(***************************************************************************)
(* Specification SpecMatcher: one forward call on every batch built from   *)
(* the query and target sets below                                         *)
(***************************************************************************)
BatchSize == 2

MaxQueries == 2

MaxTargets == 2

\* One query's output: its logits (classes 0 and 1, then the no-object class) and its box
\* <<cx, cy, w, h>>.  The last one has zero width and height.
QuerySet ==
    { [logits |-> <<1, 0, 0>>, box |-> <<1, 1, 2, 2>>],
      [logits |-> <<0, 1, 0>>, box |-> <<2, 2, 2, 2>>],
      [logits |-> <<0, 0, 1>>, box |-> <<1, 1, 0, 0>>] }

\* One target: its class label and its box.  The third has zero width and
\* height, the fourth a negative width.
TargetSet ==
    { [label |-> 0, box |-> <<1, 1, 2, 2>>],
      [label |-> 1, box |-> <<2, 1, 2, 2>>],
      [label |-> 1, box |-> <<1, 1, 0, 0>>],
      [label |-> 0, box |-> <<2, 2, -2, 2>>] }

\* (class_cost, bbox_cost, giou_cost); HungarianMatcher.__init__ rejects the
\* all-zero triple.  <<1, 5, 2>> is the configuration's default.
WeightSet ==
    { [class_cost |-> 1, bbox_cost |-> 5, giou_cost |-> 2],
      [class_cost |-> 1, bbox_cost |-> 0, giou_cost |-> 0],
      [class_cost |-> 0, bbox_cost |-> 1, giou_cost |-> 1] }

SeqsUpTo(S, lo, hi) == UNION {[1 .. k -> S] : k \in lo .. hi}

ItemOutputs(nq) == [1 .. nq -> QuerySet]

ItemTargets == SeqsUpTo(TargetSet, 0, MaxTargets)

MkOutputs(items) ==
    [logits     |-> [b \in DOMAIN items |-> [q \in DOMAIN items[b] |-> items[b][q].logits]],
     pred_boxes |-> [b \in DOMAIN items |-> [q \in DOMAIN items[b] |-> items[b][q].box]]]

MkTargets(items) ==
    [b \in DOMAIN items |->
        [class_labels |-> [t \in DOMAIN items[b] |-> items[b][t].label],
         boxes        |-> [t \in DOMAIN items[b] |-> items[b][t].box]]]

InitMatcher ==
    /\ \E w \in WeightSet, nq \in 1 .. MaxQueries :
         \E o \in [1 .. BatchSize -> ItemOutputs(nq)], t \in [1 .. BatchSize -> ItemTargets] :
            matcher = [phase |-> "called", w |-> w, outputs |-> MkOutputs(o),
                       targets |-> MkTargets(t), out |-> Idle]
    /\ giou = Idle
    /\ cb = Idle
    /\ rvq = Idle
    /\ OthersIdle

CallMatcherForward ==
    /\ matcher.phase = "called"
    /\ matcher' = [matcher EXCEPT !.phase = "returned",
                                  !.out = HungarianMatcherForward(matcher.w, matcher.outputs,
                                                                  matcher.targets)]
    /\ UNCHANGED <<giou, cb, rvq, codec, criterion, encoder, pipeline, detection, audio>>

NextMatcher == CallMatcherForward

SpecMatcher == InitMatcher /\ [][NextMatcher]_vars

NumQueriesOf(m) == Len(m.outputs.logits[1])

NumTargetsOf(m, b) == Len(m.targets[b].boxes)

NoRepeat(s) == \A i \in DOMAIN s : \A j \in DOMAIN s : s[i] = s[j] => i = j

\* C1: whenever forward returns, each batch item's pair (index_i, index_j)
\* has len(index_i) = len(index_j) = min(num_queries, number of targets of the
\* item), and neither index_i nor index_j repeats an index.
C1_LengthsAndUnique ==
    (matcher.phase = "returned" /\ matcher.out.status = "ok") =>
        \A b \in DOMAIN matcher.out.indices :
            LET index_i == matcher.out.indices[b][1]
                index_j == matcher.out.indices[b][2]
            IN  /\ Len(index_i) = Min2(NumQueriesOf(matcher), NumTargetsOf(matcher, b))
                /\ Len(index_j) = Len(index_i)
                /\ NoRepeat(index_i)
                /\ NoRepeat(index_j)

\* A returned batch with an item that has more targets than queries and an
\* item that has fewer.
C1_Witness ==
    /\ matcher.phase = "returned"
    /\ matcher.out.status = "ok"
    /\ \E b \in 1 .. BatchSize : NumTargetsOf(matcher, b) > NumQueriesOf(matcher)
    /\ \E b \in 1 .. BatchSize : NumTargetsOf(matcher, b) < NumQueriesOf(matcher)
    /\ \A b \in 1 .. BatchSize :
          Len(matcher.out.indices[b][1]) = Min2(NumQueriesOf(matcher), NumTargetsOf(matcher, b))

\* The cost the contract gives to pairing query q with target t of item b:
\* bbox_cost * L1 - class_cost * prob_q[class_t] - giou_cost * GIoU, from the
\* item's own logits, boxes and targets.
PairCost(m, b, q, t) ==
    LET pbox == m.outputs.pred_boxes[b][q]
        tbox == m.targets[b].boxes[t]
        prob == Softmax(m.outputs.logits[b][q])[m.targets[b].class_labels[t] + 1]
        g    == GiouEntry(center_to_corners_format(pbox), center_to_corners_format(tbox))
    IN  FSub(FSub(FMul(Num(m.w.bbox_cost), Num(L1Dist(pbox, tbox))),
                  FMul(Num(m.w.class_cost), prob)),
             FMul(Num(m.w.giou_cost), g))

RECURSIVE PairsCost(_, _, _)
PairsCost(m, b, a) ==
    IF a = {} THEN Num(0)
    ELSE LET p == CHOOSE x \in a : TRUE
         IN  FAdd(PairCost(m, b, p[1], p[2]), PairsCost(m, b, a \ {p}))

\* The returned assignment of item b as a set of <<query, target>> positions.
Returned(m, b) ==
    {<<m.out.indices[b][1][k] + 1, m.out.indices[b][2][k] + 1>> :
        k \in DOMAIN m.out.indices[b][1]}

\* C2: whenever forward returns, each item's assignment has the minimum
\* total cost among all one-to-one assignments of size min(num_queries,
\* num_targets) between the item's queries and the item's targets.
C2_MinimumCost ==
    (matcher.phase = "returned" /\ matcher.out.status = "ok") =>
        \A b \in DOMAIN matcher.out.indices :
            \A a \in Assignments(NumQueriesOf(matcher), NumTargetsOf(matcher, b)) :
                FLeq(PairsCost(matcher, b, Returned(matcher, b)), PairsCost(matcher, b, a))

\* A returned item with two queries and two targets whose two assignments
\* differ in cost, the cheaper being the crossed one.
C2_Witness ==
    /\ matcher.phase = "returned"
    /\ matcher.out.status = "ok"
    /\ NumQueriesOf(matcher) = 2
    /\ NumTargetsOf(matcher, 2) = 2
    /\ Returned(matcher, 2) = {<<1, 2>>, <<2, 1>>}
    /\ FLess(PairsCost(matcher, 2, {<<1, 2>>, <<2, 1>>}),
             PairsCost(matcher, 2, {<<1, 1>>, <<2, 2>>}))

\* Every box of the batch passes generalized_box_iou's assertion.
AllBoxesPass(m) ==
    /\ \A b \in DOMAIN m.outputs.pred_boxes : \A q \in DOMAIN m.outputs.pred_boxes[b] :
          m.outputs.pred_boxes[b][q][3] >= 0 /\ m.outputs.pred_boxes[b][q][4] >= 0
    /\ \A b \in DOMAIN m.targets : \A t \in DOMAIN m.targets[b].boxes :
          m.targets[b].boxes[t][3] >= 0 /\ m.targets[b].boxes[t][4] >= 0

\* C3: on a batch whose boxes pass the degenerate-box assertion, forward
\* does not fail and returns one assignment per batch item, with prediction
\* indices in [0, num_queries) and target indices in [0, number of targets of
\* the item), empty for an item without targets.
C3_AlwaysValidAssignment ==
    (matcher.phase = "returned" /\ AllBoxesPass(matcher)) =>
        /\ matcher.out.status = "ok"
        /\ Len(matcher.out.indices) = Len(matcher.targets)
        /\ \A b \in DOMAIN matcher.out.indices :
              /\ \A k \in DOMAIN matcher.out.indices[b][1] :
                    matcher.out.indices[b][1][k] \in 0 .. NumQueriesOf(matcher) - 1
              /\ \A k \in DOMAIN matcher.out.indices[b][2] :
                    matcher.out.indices[b][2][k] \in 0 .. NumTargetsOf(matcher, b) - 1
              /\ NumTargetsOf(matcher, b) = 0 =>
                    matcher.out.indices[b] = <<(<<>>), (<<>>)>>


(***************************************************************************)
(* EuclideanCodebook                                                       *)
(* A vector is a sequence of tensor values; a batch (after preprocess) is  *)
(* a sequence of vectors; a codebook's embed is a sequence of              *)
(* codebook_size vectors.  Indices are 0-based as in the code.             *)
(***************************************************************************)
\* The sequence a rule [k \in 1 .. n |-> e] defines, written out as a tuple.
Tab(f) == SubSeq(f, 1, Len(f))

\* An integer vector as a vector of tensor values.
Vec(v) == Tab([k \in DOMAIN v |-> Num(v[k])])

VAdd(u, v) == Tab([k \in DOMAIN u |-> FAdd(u[k], v[k])])

VSub(u, v) == Tab([k \in DOMAIN u |-> FSub(u[k], v[k])])

\* u / c, componentwise.
VDiv(u, c) == Tab([k \in DOMAIN u |-> FDiv(u[k], c)])

RECURSIVE FSum(_)
FSum(s) == IF s = <<>> THEN Num(0) ELSE FAdd(Head(s), FSum(Tail(s)))

\* v.pow(2).sum() and u @ v.
SqNorm(v) == FSum([k \in DOMAIN v |-> FMul(v[k], v[k])])

Dot(u, v) == FSum([k \in DOMAIN u |-> FMul(u[k], v[k])])

\* dist.max(dim=-1).indices for one row: the first position of the largest
\* value, 0-based.
ArgMaxFirst(row) ==
    (CHOOSE j \in DOMAIN row :
        /\ \A k \in DOMAIN row : FLeq(row[k], row[j])
        /\ \A k \in DOMAIN row : k < j => FLess(row[k], row[j])) - 1

\* The last position of the smallest value instead (dist.min).
quantizeFarthest(embed, x) ==
    Tab([i \in DOMAIN x |->
        (CHOOSE j \in DOMAIN embed :
            \A k \in DOMAIN embed :
                FLeq(SqNorm(VSub(x[i], embed[k])), SqNorm(VSub(x[i], embed[j])))) - 1])

\* EuclideanCodebook.quantize: per sample, the entry maximising
\* -(|x|^2 - 2 x.e + |e|^2).
quantize(embed, x) ==
    Tab([i \in DOMAIN x |->
        ArgMaxFirst(Tab([j \in DOMAIN embed |->
            FNeg(FAdd(FSub(SqNorm(x[i]), FMul(Num(2), Dot(x[i], embed[j]))),
                      SqNorm(embed[j])))]))])

\* EuclideanCodebook.dequantize: F.embedding(embed_ind, embed).
dequantize(embed, embed_ind) == Tab([i \in DOMAIN embed_ind |-> embed[embed_ind[i] + 1]])

\* sample_vectors' index draws for n samples and num vectors: a prefix of a
\* random permutation when n >= num, independent draws otherwise.
SampleIndices(n, num) ==
    IF n >= num
    THEN {c \in [1 .. num -> 1 .. n] : \A a \in 1 .. num : \A b \in 1 .. num : c[a] = c[b] => a = b}
    ELSE [1 .. num -> 1 .. n]

\* One iteration of kmeans' loop: <<means, bins>>.
KmeansStep(samples, means) ==
    LET buckets == Tab([i \in DOMAIN samples |->
                      ArgMaxFirst(Tab([c \in DOMAIN means |->
                          FNeg(SqNorm(VSub(samples[i], means[c])))])) + 1])
        members(c) == {i \in DOMAIN samples : buckets[i] = c}
        bins == Tab([c \in DOMAIN means |-> Cardinality(members(c))])
        total(c) == LET RECURSIVE Acc(_)
                        Acc(S) == IF S = {} THEN Tab([k \in DOMAIN means[c] |-> Num(0)])
                                  ELSE LET i == CHOOSE x \in S : TRUE
                                       IN  VAdd(samples[i], Acc(S \ {i}))
                    IN  Acc(members(c))
        new_means == Tab([c \in DOMAIN means |-> VDiv(total(c), Num(Max2(bins[c], 1)))])
    IN  <<Tab([c \in DOMAIN means |-> IF bins[c] = 0 THEN means[c] ELSE new_means[c]]), bins>>

\* kmeans(samples, num_clusters, num_iters) from the initial means drawn by
\* sample_vectors: <<means, bins>> after num_iters (>= 1) iterations.
RECURSIVE kmeans(_, _, _)
kmeans(samples, means, num_iters) ==
    LET After(step) ==
            \* once an iteration leaves the means as they are, so does every later one
            IF num_iters <= 1 \/ step[1] = means THEN step
            ELSE kmeans(samples, step[1], num_iters - 1)
    IN  After(KmeansStep(samples, means))

\* The buffers of a codebook after __init__ wrote embed (uniform_init's draw,
\* or zeros with kmeans_init).
Buffers(c) == [inited |-> c.inited, cluster_size |-> c.cluster_size,
               embed |-> c.embed, embed_avg |-> c.embed_avg]

\* init_embed_ without its last copy, the one that sets inited.
init_embed_NoFlag(c, data, draw) ==
    IF c.inited THEN c
    ELSE LET km == kmeans(data, Tab([k \in DOMAIN draw |-> data[draw[k]]]), c.kmeans_iters)
         IN  [c EXCEPT !.embed = km[1], !.embed_avg = km[1],
                       !.cluster_size = Tab([k \in DOMAIN km[2] |-> Num(km[2][k])])]

\* EuclideanCodebook.init_embed_ on the codebook record c, with sample_vectors'
\* draw of initial means.
init_embed_(c, data, draw) ==
    IF c.inited THEN c
    ELSE LET km == kmeans(data, Tab([k \in DOMAIN draw |-> data[draw[k]]]), c.kmeans_iters)
         IN  [c EXCEPT !.embed = km[1], !.embed_avg = km[1],
                       !.cluster_size = Tab([k \in DOMAIN km[2] |-> Num(km[2][k])]),
                       !.inited = TRUE]

\* replace_ writing the drawn samples to every row, masked or not.
replace_AllRows(c, samples, mask, draw) ==
    [c EXCEPT !.embed = Tab([k \in DOMAIN c.embed |-> samples[draw[k]]])]

\* EuclideanCodebook.replace_: rows under the mask take sample_vectors' draw.
replace_(c, samples, mask, draw) ==
    [c EXCEPT !.embed = Tab([k \in DOMAIN c.embed |->
                                IF mask[k] THEN samples[draw[k]] ELSE c.embed[k]])]

\* expire_codes_ without the threshold test, replacing rows at or below it.
expire_codes_AtOrBelow(c, batch_samples, draw) ==
    LET expired_codes == [k \in DOMAIN c.cluster_size |->
                            FLeq(c.cluster_size[k], Num(c.threshold_ema_dead_code))]
    IN  IF ~\E k \in DOMAIN expired_codes : expired_codes[k] THEN c
        ELSE replace_(c, batch_samples, expired_codes, draw)

\* EuclideanCodebook.expire_codes_.
expire_codes_(c, batch_samples, draw) ==
    IF c.threshold_ema_dead_code = 0 THEN c
    ELSE LET expired_codes == [k \in DOMAIN c.cluster_size |->
                                 FLess(c.cluster_size[k], Num(c.threshold_ema_dead_code))]
         IN  IF ~\E k \in DOMAIN expired_codes : expired_codes[k] THEN c
             ELSE replace_(c, batch_samples, expired_codes, draw)

\* EuclideanCodebook.forward: the codebook afterwards and (quantize, embed_ind).
\* The training-mode update of the code is commented out in the source, so
\* forward is the same in both modes.
CodebookForward(c, x, draw) ==
    LET c2        == init_embed_(c, x, draw)
        embed_ind == quantize(c2.embed, x)
    IN  [codebook |-> c2, quantize |-> dequantize(c2.embed, embed_ind), embed_ind |-> embed_ind]

\* EuclideanCodebook.encode and decode.
CodebookEncode(c, x) == quantize(c.embed, x)

CodebookDecode(c, embed_ind) == dequantize(c.embed, embed_ind)


(***************************************************************************)
(* Specification SpecCodebook: one EuclideanCodebook and calls of its      *)
(* methods on batches of vectors                                           *)
(***************************************************************************)
CodebookSize == 2

MaxSamples == 2

\* EuclideanCodebook.__init__'s default kmeans_iters.
KmeansIters == 10

\* EuclideanCodebook.__init__'s default threshold_ema_dead_code.
DefaultThreshold == 2

SampleSet == {Vec(<<0, 0>>), Vec(<<2, 0>>), Vec(<<0, 4>>)}

Batches == SeqsUpTo(SampleSet, 1, MaxSamples)

\* Rows uniform_init may draw for a codebook built without kmeans_init.
UniformRows == {Vec(<<0, 0>>), Vec(<<1, 1>>)}

ZeroVec == Vec(<<0, 0>>)

\* EuclideanCodebook.__init__: embed is uniform_init's draw, or zeros with
\* kmeans_init; embed_avg is its clone, cluster_size is zeros, inited is
\* "not kmeans_init".
NewCodebook(codebook_size, kmeans_init, kmeans_iters, threshold, draw) ==
    LET embed == IF kmeans_init THEN Tab([k \in 1 .. codebook_size |-> ZeroVec]) ELSE draw
    IN  [codebook_size |-> codebook_size, kmeans_iters |-> kmeans_iters,
         threshold_ema_dead_code |-> threshold,
         inited |-> ~kmeans_init,
         cluster_size |-> Tab([k \in 1 .. codebook_size |-> Num(0)]),
         embed |-> embed, embed_avg |-> embed]

NoCall == [op |-> "none", x |-> <<>>, out |-> <<>>]

InitCodebook ==
    /\ \E kmeans_init \in BOOLEAN, threshold \in {0, DefaultThreshold},
          draw \in [1 .. CodebookSize -> UniformRows] :
         cb = [phase |-> "live", kmeans_init |-> kmeans_init, training |-> TRUE,
               c |-> NewCodebook(CodebookSize, kmeans_init, KmeansIters, threshold, draw),
               last |-> NoCall]
    /\ giou = Idle
    /\ matcher = Idle
    /\ rvq = Idle
    /\ OthersIdle

\* The draws sample_vectors can make during a call on x; a call that is known
\* to return before sampling is given none.
Draws(sampling, x) ==
    IF sampling THEN SampleIndices(Len(x), cb.c.codebook_size) ELSE {<<>>}

\* codebook.forward(x)
CbForward ==
    /\ cb.phase = "live"
    /\ \E x \in Batches : \E draw \in Draws(~cb.c.inited, x) :
         \E r \in {CodebookForward(cb.c, x, draw)} :
            cb' = [cb EXCEPT !.c = r.codebook,
                             !.last = [op |-> "forward", x |-> x,
                                       out |-> <<r.quantize, r.embed_ind>>]]
    /\ UNCHANGED <<giou, matcher, rvq, codec, criterion, encoder, pipeline, detection, audio>>

\* codebook.init_embed_(data)
CbInitEmbed ==
    /\ cb.phase = "live"
    /\ \E x \in Batches : \E draw \in Draws(~cb.c.inited, x) :
         cb' = [cb EXCEPT !.c = init_embed_(cb.c, x, draw),
                          !.last = [op |-> "init_embed_", x |-> x, out |-> <<>>]]
    /\ UNCHANGED <<giou, matcher, rvq, codec, criterion, encoder, pipeline, detection, audio>>

\* codebook.expire_codes_(batch_samples)
CbExpireCodes ==
    /\ cb.phase = "live"
    /\ \E x \in Batches : \E draw \in Draws(TRUE, x) :
         cb' = [cb EXCEPT !.c = expire_codes_(cb.c, x, draw),
                          !.last = [op |-> "expire_codes_", x |-> x, out |-> <<>>]]
    /\ UNCHANGED <<giou, matcher, rvq, codec, criterion, encoder, pipeline, detection, audio>>

\* codebook.train(mode): nn.Module's training flag (eval() is train(False)).
\* The flag is True after construction; forward never reads it, its
\* training branch being commented out.
CbTrain ==
    /\ cb.phase = "live"
    /\ \E mode \in BOOLEAN :
         cb' = [cb EXCEPT !.training = mode,
                          !.last = [op |-> "train", x |-> <<>>, out |-> mode]]
    /\ UNCHANGED <<giou, matcher, rvq, codec, criterion, encoder, pipeline, detection, audio>>

NextCodebook == CbForward \/ CbInitEmbed \/ CbExpireCodes \/ CbTrain

SpecCodebook == InitCodebook /\ [][NextCodebook]_vars

\* The mean of the samples of x at the positions S.
RECURSIVE VSum(_, _)
VSum(x, S) ==
    IF S = {} THEN ZeroVec
    ELSE LET i == CHOOSE k \in S : TRUE IN VAdd(x[i], VSum(x, S \ {i}))

MeanOf(x, S) == VDiv(VSum(x, S), Num(Cardinality(S)))

\* The buffers hold seeds taken from batch x: every embed row is the mean of
\* some samples of x, embed_avg is a copy of embed, and cluster_size counts
\* each sample of x once.
SeededFrom(c, x) ==
    /\ \A k \in DOMAIN c.embed :
          \E S \in SUBSET (DOMAIN x) : S # {} /\ c.embed[k] = MeanOf(x, S)
    /\ c.embed_avg = c.embed
    /\ \A k \in DOMAIN c.cluster_size : c.cluster_size[k].d = 1 /\ c.cluster_size[k].n >= 0
    /\ FSum(c.cluster_size) = Num(Len(x))

\* C6: a codebook created with kmeans_init starts with inited false; the
\* first forward call seeds embed, embed_avg and cluster_size from its batch and
\* sets inited; once inited is true it stays true, and init_embed_ on a later
\* batch leaves embed, embed_avg and cluster_size as they are.
C6_InitOnce ==
    /\ (cb.kmeans_init => ~cb.c.inited)
    /\ [][/\ (~cb.c.inited /\ cb'.last.op = "forward")
                => (cb'.c.inited /\ SeededFrom(cb'.c, cb'.last.x))
          /\ cb.c.inited => cb'.c.inited
          /\ (cb.c.inited /\ cb'.last.op = "init_embed_")
                => Buffers(cb'.c) = Buffers(cb.c)]_vars

\* A k-means codebook seeded by forward with two different centroids, on which
\* init_embed_ was then called with a batch that is not the one it holds.
C6_Witness ==
    /\ cb.phase = "live"
    /\ cb.kmeans_init
    /\ cb.c.inited
    /\ cb.last.op = "init_embed_"
    /\ cb.c.embed[1] # cb.c.embed[2]
    /\ cb.c.embed_avg = cb.c.embed
    /\ ~SeededFrom(cb.c, cb.last.x)

\* C10: expire_codes_ on a codebook whose threshold_ema_dead_code is 0 leaves
\* embed unchanged, whatever the batch and the cluster sizes.
C10_NoExpiryAtZero ==
    [][(cb.c.threshold_ema_dead_code = 0 /\ cb'.last.op = "expire_codes_")
            => cb'.c.embed = cb.c.embed]_vars

\* expire_codes_ has run with threshold 0 on a codebook whose cluster sizes
\* are all zero, with a batch that holds a vector the codebook does not.
C10_Witness ==
    /\ cb.phase = "live"
    /\ cb.c.threshold_ema_dead_code = 0
    /\ cb.last.op = "expire_codes_"
    /\ \A k \in DOMAIN cb.c.cluster_size : cb.c.cluster_size[k] = Num(0)
    /\ \E i \in DOMAIN cb.last.x : \A k \in DOMAIN cb.c.embed : cb.last.x[i] # cb.c.embed[k]

\* C11: a forward call in training mode on a codebook with
\* threshold_ema_dead_code > 0 leaves every entry whose cluster_size is below
\* the threshold holding a vector of the call's batch; a forward call outside
\* training mode on an initialised codebook leaves embed as it was.
C11_TrainingForwardExpires ==
    [][cb'.last.op = "forward" =>
          /\ (cb.training /\ cb.c.threshold_ema_dead_code > 0) =>
                \A k \in DOMAIN cb'.c.embed :
                    FLess(cb'.c.cluster_size[k], Num(cb.c.threshold_ema_dead_code))
                        => \E i \in DOMAIN cb'.last.x : cb'.c.embed[k] = cb'.last.x[i]
          /\ (~cb.training /\ cb.c.inited) => cb'.c.embed = cb.c.embed]_vars


(***************************************************************************)
(* Residual vector quantizer (modeling_encodec.py).  A tensor x is the     *)
(* sequence of its frames; codebook_dim is dim, so project_in and          *)
(* project_out are the identity.                                           *)
(***************************************************************************)
\* An Optional[float]: None, or a float value.
None == [some |-> FALSE, val |-> Num(0)]

Some(v) == [some |-> TRUE, val |-> v]

\* math.floor of a finite value.
Floor(f) == f.n \div f.d

\* math.log2 of a power of two.
Log2(b) == CHOOSE k \in 0 .. b : Pow2(k) = b

\* x - y on tensors, frame by frame.
TSub(x, y) == Tab([i \in DOMAIN x |-> VSub(x[i], y[i])])

TAdd(x, y) == Tab([i \in DOMAIN x |-> VAdd(x[i], y[i])])

\* VectorQuantization.encode and decode.
VectorQuantizationEncode(layer, x) == CodebookEncode(layer, x)

VectorQuantizationDecode(layer, embed_ind) == CodebookDecode(layer, embed_ind)

\* self.layers[:n_q] after "n_q = n_q or len(self.layers)"; n_q is 0 for a
\* missing argument (None and 0 are both falsy).
LayersUsed(layers, n_q) ==
    SubSeq(layers, 1, Min2(IF n_q = 0 THEN Len(layers) ELSE n_q, Len(layers)))

\* The loop of encode with every stage quantizing x itself.
RECURSIVE EncodeLoopNoSub(_, _)
EncodeLoopNoSub(layers, residual) ==
    IF layers = <<>> THEN <<>>
    ELSE <<VectorQuantizationEncode(Head(layers), residual)>>
         \o EncodeLoopNoSub(Tail(layers), residual)

\* The loop of ResidualVectorQuantization.encode over the layers given.
RECURSIVE EncodeLoop(_, _)
EncodeLoop(layers, residual) ==
    IF layers = <<>> THEN <<>>
    ELSE LET indices   == VectorQuantizationEncode(Head(layers), residual)
             quantized == VectorQuantizationDecode(Head(layers), indices)
         IN  <<indices>> \o EncodeLoop(Tail(layers), TSub(residual, quantized))

\* ResidualVectorQuantization.encode: one index array per layer used.
ResidualVectorQuantizationEncode(layers, x, n_q) == EncodeLoop(LayersUsed(layers, n_q), x)

\* ResidualVectorQuantization.decode: the sum of the layers' decoded codes.
RECURSIVE ResidualVectorQuantizationDecode(_, _)
ResidualVectorQuantizationDecode(layers, q_indices) ==
    IF Len(q_indices) = 1 THEN VectorQuantizationDecode(layers[1], q_indices[1])
    ELSE LET i == Len(q_indices)
         IN  TAdd(ResidualVectorQuantizationDecode(layers, SubSeq(q_indices, 1, i - 1)),
                  VectorQuantizationDecode(layers[i], q_indices[i]))

\* ResidualVectorQuantizer.get_bandwidth_per_quantizer.
get_bandwidth_per_quantizer(self, frame_rate) == Log2(self.bins) * frame_rate

\* get_num_quantizers_for_bandwidth without the max(1, .).
get_num_quantizers_for_bandwidthNoMax(self, frame_rate, bandwidth) ==
    LET bw_per_q == get_bandwidth_per_quantizer(self, frame_rate)
    IN  IF bandwidth.some /\ bandwidth.val # Num(0) /\ FLess(Num(0), bandwidth.val)
        THEN Floor(FDiv(FMul(bandwidth.val, Num(1000)), Num(bw_per_q)))
        ELSE self.n_q

\* ResidualVectorQuantizer.get_num_quantizers_for_bandwidth; "if bandwidth"
\* is false for None and for 0.0.
get_num_quantizers_for_bandwidth(self, frame_rate, bandwidth) ==
    LET bw_per_q == get_bandwidth_per_quantizer(self, frame_rate)
    IN  IF bandwidth.some /\ bandwidth.val # Num(0) /\ FLess(Num(0), bandwidth.val)
        THEN Max2(1, Floor(FDiv(FMul(bandwidth.val, Num(1000)), Num(bw_per_q))))
        ELSE self.n_q

\* ResidualVectorQuantizer.encode and decode.
ResidualVectorQuantizerEncode(self, x, frame_rate, bandwidth) ==
    ResidualVectorQuantizationEncode(self.vq.layers, x,
        get_num_quantizers_for_bandwidth(self, frame_rate, bandwidth))

ResidualVectorQuantizerDecode(self, codes) ==
    ResidualVectorQuantizationDecode(self.vq.layers, codes)


(***************************************************************************)
(* Specification SpecRVQ: one ResidualVectorQuantizer, freshly built or    *)
(* with loaded codebooks, and calls of its methods                         *)
(***************************************************************************)
MaxLayers == 2

\* ResidualVectorQuantizer.__init__'s default kmeans_iters.
RvqKmeansIters == 50

BinsSet == {2, 4}

FrameRates == {75, 150}

\* Target bandwidths in kb/s.
BandwidthSet ==
    {None, Some(Num(0)), Some(Frac(-3, 2)), Some(Frac(1, 16)), Some(Frac(1, 4))}

\* Input tensors: up to MaxSamples frames.
FrameSet == {Vec(<<2, 0>>), Vec(<<3, 1>>)}

Tensors == SeqsUpTo(FrameSet, 1, MaxSamples)

\* Codebook contents a checkpoint may hold, per codebook size.
LoadedEmbeds(bins) ==
    IF bins = 2
    THEN {<<Vec(<<0, 0>>), Vec(<<1, 0>>)>>, <<Vec(<<2, 0>>), Vec(<<0, 4>>)>>}
    ELSE {<<Vec(<<0, 0>>), Vec(<<1, 0>>), Vec(<<0, 4>>), Vec(<<2, 4>>)>>,
          <<Vec(<<1, 0>>), Vec(<<0, 1>>), Vec(<<-1, 0>>), Vec(<<0, -1>>)>>}

\* A layer's codebook as ResidualVectorQuantizer.__init__ builds it
\* (kmeans_init is True), and after load_state_dict wrote its buffers.
FreshLayer(bins) == NewCodebook(bins, TRUE, RvqKmeansIters, DefaultThreshold, <<>>)

LoadedLayer(bins, embed) ==
    [FreshLayer(bins) EXCEPT !.embed = embed, !.embed_avg = embed, !.inited = TRUE]

\* ResidualVectorQuantizer.__init__: n_q layers of codebook size bins.
NewRVQ(n_q, bins, layers) == [n_q |-> n_q, bins |-> bins, vq |-> [layers |-> layers]]

NoRvqCall ==
    [op |-> "none", x |-> <<>>, frame_rate |-> 0, bandwidth |-> None, n_q |-> 0,
     codes |-> <<>>, out |-> <<>>]

InitRVQ ==
    /\ \E n_q \in 1 .. MaxLayers, bins \in BinsSet :
         \E layers \in {[k \in 1 .. n_q |-> FreshLayer(bins)]}
                       \cup {[k \in 1 .. n_q |-> LoadedLayer(bins, e[k])] :
                                e \in [1 .. n_q -> LoadedEmbeds(bins)]} :
            rvq = [phase |-> "live", self |-> NewRVQ(n_q, bins, layers), last |-> NoRvqCall]
    /\ giou = Idle
    /\ matcher = Idle
    /\ cb = Idle
    /\ OthersIdle

\* quantizer.get_num_quantizers_for_bandwidth(frame_rate, bandwidth)
RvqGetNumQuantizers ==
    /\ rvq.phase = "live"
    /\ \E frame_rate \in FrameRates, bandwidth \in BandwidthSet :
         rvq' = [rvq EXCEPT !.last =
                    [NoRvqCall EXCEPT !.op = "get_num_quantizers_for_bandwidth",
                                      !.frame_rate = frame_rate, !.bandwidth = bandwidth,
                                      !.out = get_num_quantizers_for_bandwidth(
                                                  rvq.self, frame_rate, bandwidth)]]
    /\ UNCHANGED <<giou, matcher, cb, codec, criterion, encoder, pipeline, detection, audio>>

\* quantizer.encode(x, frame_rate, bandwidth)
RvqEncode ==
    /\ rvq.phase = "live"
    /\ \E x \in Tensors, frame_rate \in FrameRates, bandwidth \in BandwidthSet :
         \E codes \in {ResidualVectorQuantizerEncode(rvq.self, x, frame_rate, bandwidth)} :
            rvq' = [rvq EXCEPT !.last =
                       [NoRvqCall EXCEPT !.op = "encode", !.x = x,
                                         !.frame_rate = frame_rate, !.bandwidth = bandwidth,
                                         !.codes = codes, !.out = codes]]
    /\ UNCHANGED <<giou, matcher, cb, codec, criterion, encoder, pipeline, detection, audio>>

\* quantizer.vq.encode(x, n_q)
VqEncode ==
    /\ rvq.phase = "live"
    /\ \E x \in Tensors, n_q \in 0 .. MaxLayers + 1 :
         \E codes \in {ResidualVectorQuantizationEncode(rvq.self.vq.layers, x, n_q)} :
            rvq' = [rvq EXCEPT !.last =
                       [NoRvqCall EXCEPT !.op = "vq.encode", !.x = x, !.n_q = n_q,
                                         !.codes = codes, !.out = codes]]
    /\ UNCHANGED <<giou, matcher, cb, codec, criterion, encoder, pipeline, detection, audio>>

\* quantizer.decode(codes) on the codes the last encode returned
RvqDecode ==
    /\ rvq.phase = "live"
    /\ rvq.last.op \in {"encode", "vq.encode"}
    /\ rvq' = [rvq EXCEPT !.last =
                  [NoRvqCall EXCEPT !.op = "decode", !.x = rvq.last.x, !.n_q = rvq.last.n_q,
                                    !.codes = rvq.last.codes,
                                    !.out = ResidualVectorQuantizerDecode(rvq.self,
                                                                          rvq.last.codes)]]
    /\ UNCHANGED <<giou, matcher, cb, codec, criterion, encoder, pipeline, detection, audio>>

NextRVQ == RvqGetNumQuantizers \/ RvqEncode \/ VqEncode \/ RvqDecode

SpecRVQ == InitRVQ /\ [][NextRVQ]_vars

\* C7: encode returns exactly n_q index arrays, n_q being what
\* get_num_quantizers_for_bandwidth returns for the call's frame rate and
\* bandwidth, and that n_q is never larger than the configured number of
\* quantizers.
C7_EncodeReturnsNqArrays ==
    rvq.phase = "live" /\ rvq.last.op = "encode" =>
        LET n_q == get_num_quantizers_for_bandwidth(rvq.self, rvq.last.frame_rate,
                                                    rvq.last.bandwidth)
        IN  /\ Len(rvq.last.out) = n_q
            /\ n_q <= rvq.self.n_q

\* C8: for a bandwidth > 0 get_num_quantizers_for_bandwidth returns
\* max(1, floor(bandwidth * 1000 / (log2(bins) * frame_rate))): the result n is
\* at least 1, and n * q <= bandwidth * 1000 < (n + 1) * q with
\* q = log2(bins) * frame_rate unless bandwidth * 1000 is below q, where n is 1;
\* for None or a bandwidth that is not positive it returns the configured n_q.
C8_NumQuantizersFormula ==
    rvq.phase = "live" /\ rvq.last.op = "get_num_quantizers_for_bandwidth" =>
        LET n  == rvq.last.out
            bw == rvq.last.bandwidth
            B  == FMul(bw.val, Num(1000))
        IN  \E k \in 1 .. rvq.self.bins :
               /\ Pow2(k) = rvq.self.bins
               /\ LET q == k * rvq.last.frame_rate
                  IN  IF bw.some /\ bw.val.n > 0
                      THEN /\ n >= 1
                           /\ FLess(B, Num(q)) => n = 1
                           /\ FLeq(Num(q), B) => FLeq(Num(n * q), B) /\ FLess(B, Num((n + 1) * q))
                      ELSE n = rvq.self.n_q

\* A call with a positive bandwidth below one quantizer's bandwidth, and the
\* configured number of quantizers above 1.
C8_Witness ==
    /\ rvq.phase = "live"
    /\ rvq.last.op = "get_num_quantizers_for_bandwidth"
    /\ rvq.last.bandwidth.some
    /\ rvq.last.bandwidth.val.n > 0
    /\ FLess(FMul(rvq.last.bandwidth.val, Num(1000)),
             Num(get_bandwidth_per_quantizer(rvq.self, rvq.last.frame_rate)))
    /\ rvq.self.n_q > 1
    /\ rvq.last.out = 1

\* |x - y|^2 over all frames.
ReconstructionError(x, y) == FSum([i \in DOMAIN x |-> SqNorm(VSub(x[i], y[i]))])

\* decode(encode(x, n_q)) for the quantizer's layers.
RoundTrip(x, n_q) ==
    ResidualVectorQuantizationDecode(rvq.self.vq.layers,
        ResidualVectorQuantizationEncode(rvq.self.vq.layers, x, n_q))

\* The state follows decode(vq.encode(x, n_q)) with 2 <= n_q <= number of layers.
AfterRoundTrip ==
    /\ rvq.phase = "live"
    /\ rvq.last.op = "decode"
    /\ rvq.last.n_q >= 2
    /\ rvq.last.n_q <= Len(rvq.self.vq.layers)

\* C9 as stated: whatever the codebooks hold, the reconstruction error with
\* n_q stages is at most the error with n_q - 1 stages.
C9_ErrorNonIncreasing ==
    AfterRoundTrip =>
        FLeq(ReconstructionError(rvq.last.x, rvq.last.out),
             ReconstructionError(rvq.last.x, RoundTrip(rvq.last.x, rvq.last.n_q - 1)))

\* C9, amended: each frame's error with n_q stages is the least squared
\* distance from its residual after n_q - 1 stages to an entry of stage n_q's
\* codebook; so the reconstruction error with n_q stages is at most the error
\* with n_q - 1 stages whenever stage n_q's codebook holds the zero vector.
C9_ErrorNonIncreasingWithZeroEntry ==
    AfterRoundTrip =>
        LET x        == rvq.last.x
            y        == rvq.last.out
            embed    == rvq.self.vq.layers[rvq.last.n_q].embed
            residual == TSub(x, RoundTrip(x, rvq.last.n_q - 1))
        IN  /\ \A i \in DOMAIN x :
                  /\ \E j \in DOMAIN embed :
                        SqNorm(VSub(x[i], y[i])) = SqNorm(VSub(residual[i], embed[j]))
                  /\ \A j \in DOMAIN embed :
                        FLeq(SqNorm(VSub(x[i], y[i])), SqNorm(VSub(residual[i], embed[j])))
            /\ (\E j \in DOMAIN embed : embed[j] = ZeroVec)
                  => FLeq(ReconstructionError(x, y),
                          ReconstructionError(x, RoundTrip(x, rvq.last.n_q - 1)))

\* A round trip through two loaded stages whose second codebook holds the zero
\* vector and lowers the error strictly.
C9_Witness ==
    /\ AfterRoundTrip
    /\ rvq.self.vq.layers[rvq.last.n_q].inited
    /\ \E j \in DOMAIN rvq.self.vq.layers[rvq.last.n_q].embed :
          rvq.self.vq.layers[rvq.last.n_q].embed[j] = ZeroVec
    /\ FLess(ReconstructionError(rvq.last.x, rvq.last.out),
             ReconstructionError(rvq.last.x, RoundTrip(rvq.last.x, rvq.last.n_q - 1)))


(***************************************************************************)
(* Construction of a ResidualVectorQuantizer and of an EnCodecModel        *)
(* (modeling_encodec.py).  The codebooks' contents are left out here: a    *)
(* layer is its codebook_size and its inited flag.                         *)
(***************************************************************************)
\* int(math.log2(b)) for b >= 1.
FloorLog2(b) == CHOOSE k \in 0 .. b : Pow2(k) <= b /\ b < Pow2(k + 1)

\* math.ceil(a / b) for positive integers.
CeilDiv(a, b) == (a + b - 1) \div b

RECURSIVE Prod(_)
Prod(s) == IF s = <<>> THEN 1 ELSE Head(s) * Prod(Tail(s))

\* ResidualVectorQuantizer.__init__: stores its arguments and builds n_q
\* layers of codebook size bins; no argument is checked.
ResidualVectorQuantizerInit(n_q, bins, kmeans_init, threshold_ema_dead_code) ==
    [status |-> "ok",
     self   |-> [n_q |-> n_q, bins |-> bins, kmeans_init |-> kmeans_init,
                 kmeans_iters |-> RvqKmeansIters,
                 threshold_ema_dead_code |-> threshold_ema_dead_code,
                 layers |-> [k \in 1 .. n_q |->
                                [codebook_size |-> bins, inited |-> ~kmeans_init]]]]

\* EnCodecModel.__init__'s local settings.
TargetBandwidths == <<Frac(3, 2), Num(3), Num(6), Num(12), Num(24)>>

SampleRate == 24000

Ratios == <<8, 5, 4, 2>>

ModelBins == 1024

\* EnCodecModel.__init__ from the construction of the quantizer on, for the
\* bins value written in it.
EnCodecModelInit(bins) ==
    LET hop_length == Prod(Ratios)
        last_bw    == TargetBandwidths[Len(TargetBandwidths)]
        n_q        == Floor(FMul(Num(1000), last_bw)) \div (CeilDiv(SampleRate, hop_length) * 10)
        quantizer  == ResidualVectorQuantizerInit(n_q, bins, TRUE, DefaultThreshold).self
        bits_per_codebook == FloorLog2(quantizer.bins)
    IN  [status |-> IF Pow2(bits_per_codebook) = quantizer.bins THEN "ok" ELSE "AssertionError",
         self   |-> [quantizer |-> quantizer,
                     frame_rate |-> CeilDiv(SampleRate, Prod(Ratios)),
                     bits_per_codebook |-> bits_per_codebook,
                     bandwidth |-> None]]

\* EnCodecModel.set_target_bandwidth.
set_target_bandwidth(self, bandwidth) ==
    IF \E i \in DOMAIN TargetBandwidths : TargetBandwidths[i] = bandwidth
    THEN [status |-> "ok", self |-> [self EXCEPT !.bandwidth = Some(bandwidth)]]
    ELSE [status |-> "ValueError", self |-> self]


(***************************************************************************)
(* Specification SpecCodec: objects are constructed, and a model's target  *)
(* bandwidth is set                                                        *)
(***************************************************************************)
MaxBins == 16

InitCodec ==
    /\ codec = [phase |-> "live", kind |-> "none", status |-> "ok", self |-> <<>>]
    /\ giou = Idle
    /\ matcher = Idle
    /\ cb = Idle
    /\ rvq = Idle
    /\ criterion = Idle
    /\ encoder = Idle
    /\ pipeline = Idle
    /\ LaterIdle

\* ResidualVectorQuantizer(n_q=.., bins=.., kmeans_init=.., threshold_ema_dead_code=..)
NewQuantizer ==
    /\ codec.phase = "live"
    /\ \E n_q \in 1 .. MaxLayers, bins \in 1 .. MaxBins, kmeans_init \in BOOLEAN,
          threshold \in {0, DefaultThreshold} :
         \E r \in {ResidualVectorQuantizerInit(n_q, bins, kmeans_init, threshold)} :
            codec' = [phase |-> "live", kind |-> "ResidualVectorQuantizer",
                      status |-> r.status, self |-> r.self]
    /\ UNCHANGED <<giou, matcher, cb, rvq, criterion, encoder, pipeline, detection, audio>>

\* EnCodecModel(config)
NewModel ==
    /\ codec.phase = "live"
    /\ \E r \in {EnCodecModelInit(ModelBins)} :
         codec' = [phase |-> "live", kind |-> "EnCodecModel",
                   status |-> r.status, self |-> r.self]
    /\ UNCHANGED <<giou, matcher, cb, rvq, criterion, encoder, pipeline, detection, audio>>

\* model.set_target_bandwidth(bandwidth)
SetTargetBandwidth ==
    /\ codec.phase = "live"
    /\ codec.kind = "EnCodecModel"
    /\ \E bandwidth \in {Frac(3, 2), Num(2), Num(6), Num(24), Num(0)} :
         \E r \in {set_target_bandwidth(codec.self, bandwidth)} :
            codec' = [codec EXCEPT !.status = r.status, !.self = r.self]
    /\ UNCHANGED <<giou, matcher, cb, rvq, criterion, encoder, pipeline, detection, audio>>

NextCodec == NewQuantizer \/ NewModel \/ SetTargetBandwidth

SpecCodec == InitCodec /\ [][NextCodec]_vars

\* The bins of the quantizer that the constructed object is or holds.
QuantizerBins ==
    IF codec.kind = "EnCodecModel" THEN codec.self.quantizer.bins ELSE codec.self.bins

\* C12: every quantizer that was built, on its own or inside a model, has a
\* bins value that is a power of two (2^bits = bins for some bits).
C12_BinsPowerOfTwo ==
    (codec.phase = "live" /\ codec.kind # "none" /\ codec.status = "ok")
        => Pow2(FloorLog2(QuantizerBins)) = QuantizerBins


(***************************************************************************)
(* SetCriterion (modeling_detr.py).  A dict is a function on its keys.     *)
(***************************************************************************)
\* logits.argmax(-1) for one row of integer logits: the first position of
\* the largest value, 0-based.
argmax(row) ==
    (CHOOSE j \in DOMAIN row :
        /\ \A k \in DOMAIN row : row[k] <= row[j]
        /\ \A k \in DOMAIN row : k < j => row[k] < row[j]) - 1

\* SetCriterion.__init__'s empty_weight buffer: ones, eos_coef last.
EmptyWeight(num_classes, eos_coef) ==
    [c \in 1 .. num_classes + 1 |-> IF c = num_classes + 1 THEN eos_coef ELSE Num(1)]

\* _get_src_permutation_idx: the <<batch index, query index>> pairs of the
\* matched queries, 0-based, in batch order.
get_src_permutation_idx(indices) ==
    Concat([i \in DOMAIN indices |->
               [k \in DOMAIN indices[i][1] |-> <<i - 1, indices[i][1][k]>>]])

\* _get_tgt_permutation_idx.
get_tgt_permutation_idx(indices) ==
    Concat([i \in DOMAIN indices |->
               [k \in DOMAIN indices[i][2] |-> <<i - 1, indices[i][2][k]>>]])

\* F.cross_entropy(src_logits.transpose(1, 2), target_classes, weight): the
\* loss is the weighted mean of -ln(prob of the target class) over all
\* queries.  A logarithm is not a rational, so the loss is kept as its terms:
\* per query its target class, that class's weight and its softmax probability.
cross_entropy(src_logits, target_classes, weight) ==
    [b \in DOMAIN src_logits |->
        [q \in DOMAIN src_logits[b] |->
            [target |-> target_classes[b][q],
             weight |-> weight[target_classes[b][q] + 1],
             prob   |-> Softmax(src_logits[b][q])[target_classes[b][q] + 1]]]]

\* target_classes of loss_labels, filled with 0 instead of num_classes.
TargetClassesFillZero(num_classes, src_logits, targets, indices) ==
    LET idx == get_src_permutation_idx(indices)
        target_classes_o ==
            Concat([i \in DOMAIN targets |->
                       [k \in DOMAIN indices[i][2] |->
                           targets[i].class_labels[indices[i][2][k] + 1]]])
    IN  [b \in DOMAIN src_logits |->
            [q \in DOMAIN src_logits[b] |->
                IF \E n \in DOMAIN idx : idx[n] = <<b - 1, q - 1>>
                THEN target_classes_o[CHOOSE n \in DOMAIN idx : idx[n] = <<b - 1, q - 1>>]
                ELSE 0]]

\* target_classes of loss_labels: torch.full(.., num_classes) with
\* target_classes[idx] = target_classes_o.
TargetClasses(num_classes, src_logits, targets, indices) ==
    LET idx == get_src_permutation_idx(indices)
        target_classes_o ==
            Concat([i \in DOMAIN targets |->
                       [k \in DOMAIN indices[i][2] |->
                           targets[i].class_labels[indices[i][2][k] + 1]]])
    IN  [b \in DOMAIN src_logits |->
            [q \in DOMAIN src_logits[b] |->
                IF \E n \in DOMAIN idx : idx[n] = <<b - 1, q - 1>>
                THEN target_classes_o[CHOOSE n \in DOMAIN idx :
                                         /\ idx[n] = <<b - 1, q - 1>>
                                         /\ \A m \in DOMAIN idx :
                                               idx[m] = <<b - 1, q - 1>> => m <= n]
                ELSE num_classes]]

\* SetCriterion.loss_labels.
loss_labels(self, outputs, targets, indices, num_boxes) ==
    IF "logits" \notin DOMAIN outputs THEN [status |-> "AssertionError", losses |-> <<>>]
    ELSE [status |-> "ok",
          losses |-> ("loss_ce" :>
                        cross_entropy(outputs.logits,
                                      TargetClasses(self.num_classes, outputs.logits,
                                                    targets, indices),
                                      self.empty_weight))]

\* loss_cardinality counting a query only when a class strictly beats no-object.
loss_cardinalityStrict(self, outputs, targets, indices, num_boxes) ==
    LET logits    == outputs.logits
        card_pred == [b \in DOMAIN logits |->
                        Cardinality({q \in DOMAIN logits[b] :
                            \E c \in 1 .. Len(logits[b][q]) - 1 :
                                logits[b][q][c] > logits[b][q][Len(logits[b][q])]})]
    IN  [status |-> "ok",
         losses |-> ("cardinality_error" :>
                       FDiv(Num(SumSeq([b \in DOMAIN logits |->
                                          Abs(card_pred[b] - Len(targets[b].class_labels))])),
                            Num(Len(logits))))]

\* SetCriterion.loss_cardinality: F.l1_loss (mean) between the per-item count
\* of queries whose argmax is not the last class and the per-item target count.
loss_cardinality(self, outputs, targets, indices, num_boxes) ==
    LET logits      == outputs.logits
        tgt_lengths == [b \in DOMAIN targets |-> Len(targets[b].class_labels)]
        card_pred   == [b \in DOMAIN logits |->
                          Cardinality({q \in DOMAIN logits[b] :
                              argmax(logits[b][q]) # Len(logits[b][q]) - 1})]
    IN  [status |-> "ok",
         losses |-> ("cardinality_error" :>
                       FDiv(Num(SumSeq([b \in DOMAIN logits |->
                                          Abs(card_pred[b] - tgt_lengths[b])])),
                            Num(Len(logits))))]

\* SetCriterion.loss_boxes.
loss_boxes(self, outputs, targets, indices, num_boxes) ==
    IF "pred_boxes" \notin DOMAIN outputs THEN [status |-> "AssertionError", losses |-> <<>>]
    ELSE
    LET idx          == get_src_permutation_idx(indices)
        src_boxes    == [n \in DOMAIN idx |-> outputs.pred_boxes[idx[n][1] + 1][idx[n][2] + 1]]
        target_boxes == Concat([i \in DOMAIN targets |->
                                   [k \in DOMAIN indices[i][2] |->
                                       targets[i].boxes[indices[i][2][k] + 1]]])
        loss_bbox    == [n \in DOMAIN idx |-> L1Dist(src_boxes[n], target_boxes[n])]
        g            == generalized_box_iou(
                            [n \in DOMAIN idx |-> center_to_corners_format(src_boxes[n])],
                            [n \in DOMAIN idx |-> center_to_corners_format(target_boxes[n])])
        loss_giou    == [n \in DOMAIN idx |-> FSub(Num(1), g.value[n][n])]
    IN  IF g.status # "ok" THEN [status |-> g.status, losses |-> <<>>]
        ELSE [status |-> "ok",
              losses |-> ("loss_bbox" :> FDiv(Num(SumSeq(loss_bbox)), num_boxes)) @@
                         ("loss_giou" :> FDiv(FSum(loss_giou), num_boxes))]

\* SetCriterion.loss_masks.  The focal and dice losses are functions of the
\* matched predicted masks, the matched target masks and num_boxes; they are
\* kept as those arguments, a mask being whatever the input holds for it.
loss_masks(self, outputs, targets, indices, num_boxes) ==
    IF "pred_masks" \notin DOMAIN outputs THEN [status |-> "AssertionError", losses |-> <<>>]
    ELSE
    LET src_idx      == get_src_permutation_idx(indices)
        tgt_idx      == get_tgt_permutation_idx(indices)
        src_masks    == [n \in DOMAIN src_idx |->
                            outputs.pred_masks[src_idx[n][1] + 1][src_idx[n][2] + 1]]
        target_masks == [n \in DOMAIN tgt_idx |->
                            targets[tgt_idx[n][1] + 1].masks[tgt_idx[n][2] + 1]]
        args         == [src_masks |-> src_masks, target_masks |-> target_masks,
                         num_boxes |-> num_boxes]
    IN  [status |-> "ok",
         losses |-> ("loss_mask" :> [fn |-> "sigmoid_focal_loss", args |-> args]) @@
                    ("loss_dice" :> [fn |-> "dice_loss", args |-> args])]

\* SetCriterion.get_loss.
get_loss(self, loss, outputs, targets, indices, num_boxes) ==
    CASE loss = "labels"      -> loss_labels(self, outputs, targets, indices, num_boxes)
      [] loss = "cardinality" -> loss_cardinality(self, outputs, targets, indices, num_boxes)
      [] loss = "boxes"       -> loss_boxes(self, outputs, targets, indices, num_boxes)
      [] loss = "masks"       -> loss_masks(self, outputs, targets, indices, num_boxes)
      [] OTHER                -> [status |-> "AssertionError", losses |-> <<>>]

\* The loop "for loss in self.losses: losses.update(self.get_loss(...))":
\* a later entry replaces an earlier one under the same key; the first
\* failing loss raises.
RECURSIVE LossesOf(_, _, _, _, _, _)
LossesOf(self, names, outputs, targets, indices, num_boxes) ==
    IF names = <<>> THEN [status |-> "ok", losses |-> <<>>]
    ELSE LET Update(h, t) ==
                 IF h.status # "ok" THEN h
                 ELSE IF t.status # "ok" THEN t
                 ELSE [status |-> "ok", losses |-> t.losses @@ h.losses]
         IN  Update(get_loss(self, Head(names), outputs, targets, indices, num_boxes),
                    LossesOf(self, Tail(names), outputs, targets, indices, num_boxes))

\* The auxiliary entries left under the final layer's keys.
SuffixKeysNone(l_dict, i) == l_dict

\* l_dict = {k + f"_{i}": v for k, v in l_dict.items()}.
SuffixKeys(l_dict, i) ==
    [k2 \in {k \o "_" \o ToString(i) : k \in DOMAIN l_dict} |->
        l_dict[CHOOSE k \in DOMAIN l_dict : k \o "_" \o ToString(i) = k2]]

\* num_boxes without the clamp.
NumBoxesNoClamp(targets) ==
    Num(SumSeq([t \in DOMAIN targets |-> Len(targets[t].class_labels)]))

\* num_boxes = sum(len(t["class_labels"]) for t in targets), clamped to >= 1.
NumBoxes(targets) ==
    Num(Max2(SumSeq([t \in DOMAIN targets |-> Len(targets[t].class_labels)]), 1))

\* The names of self.losses other than "masks", in order.
SkipMasks(names) == SelectSeq(names, LAMBDA loss : loss # "masks")

\* The loop over outputs["auxiliary_outputs"] from layer i (0-based) on: each
\* layer is matched anew, the mask losses are skipped and the keys get "_i".
RECURSIVE AuxLosses(_, _, _, _, _)
AuxLosses(self, auxiliary_outputs, targets, num_boxes, i) ==
    IF i >= Len(auxiliary_outputs) THEN [status |-> "ok", losses |-> <<>>, indices |-> <<>>]
    ELSE LET Raise(e) == [status |-> e, losses |-> <<>>, indices |-> <<>>]
             Layer(m, l, rest) ==
                 IF l.status # "ok" THEN Raise(l.status)
                 ELSE IF rest.status # "ok" THEN rest
                 ELSE [status  |-> "ok",
                       losses  |-> rest.losses @@ SuffixKeys(l.losses, i),
                       indices |-> <<m.indices>> \o rest.indices]
             Matched(m) ==
                 IF m.status # "ok" THEN Raise(m.status)
                 ELSE Layer(m,
                            LossesOf(self, SkipMasks(self.losses), auxiliary_outputs[i + 1],
                                     targets, m.indices, num_boxes),
                            AuxLosses(self, auxiliary_outputs, targets, num_boxes, i + 1))
         IN  Matched(HungarianMatcherForward(self.matcher, auxiliary_outputs[i + 1], targets))

\* SetCriterion.forward.  Besides the returned dict the result keeps the
\* locals num_boxes, indices and the per-layer auxiliary indices.
SetCriterionForward(self, outputs, targets) ==
    LET outputs_without_aux ==
            [k \in DOMAIN outputs \ {"auxiliary_outputs"} |-> outputs[k]]
        Raise(e, num_boxes) ==
            [status |-> e, losses |-> <<>>, num_boxes |-> num_boxes,
             indices |-> <<>>, aux_indices |-> <<>>]
        Return(m, num_boxes, final, aux) ==
            IF final.status # "ok" THEN Raise(final.status, num_boxes)
            ELSE IF aux.status # "ok" THEN Raise(aux.status, num_boxes)
            ELSE [status |-> "ok", losses |-> aux.losses @@ final.losses,
                  num_boxes |-> num_boxes, indices |-> m.indices,
                  aux_indices |-> aux.indices]
        Matched(m, num_boxes) ==
            IF m.status # "ok" THEN Raise(m.status, num_boxes)
            ELSE Return(m, num_boxes,
                        LossesOf(self, self.losses, outputs, targets, m.indices, num_boxes),
                        IF "auxiliary_outputs" \in DOMAIN outputs
                        THEN AuxLosses(self, outputs.auxiliary_outputs, targets, num_boxes, 0)
                        ELSE [status |-> "ok", losses |-> <<>>, indices |-> <<>>])
    IN  Matched(HungarianMatcherForward(self.matcher, outputs_without_aux, targets),
                NumBoxes(targets))

\* SetCriterion.__init__.
SetCriterionInit(matcher_w, num_classes, eos_coef, losses) ==
    [matcher |-> matcher_w, num_classes |-> num_classes, eos_coef |-> eos_coef,
     losses |-> losses, empty_weight |-> EmptyWeight(num_classes, eos_coef)]

(***************************************************************************)
(* SpecCriterion: one call of SetCriterion.forward on each input.          *)
(***************************************************************************)
\* Auxiliary decoder layers in the outputs.
MaxAux == 1

\* DetrConfig's eos_coefficient, 0.1.
EosCoef == Frac(1, 10)

\* The configuration's matcher costs (class 1, bbox 5, giou 2).
CriterionWeights == [class_cost |-> 1, bbox_cost |-> 5, giou_cost |-> 2]

\* The queries of one item: the second query of the first two ties a class
\* with no-object, the third holds a no-object query with a zero-area box.
CriterionItemOutputs ==
    { << [logits |-> <<1, 0, 0>>, box |-> <<1, 1, 2, 2>>],
         [logits |-> <<0, 1, 1>>, box |-> <<2, 2, 2, 2>>] >>,
      << [logits |-> <<0, 1, 1>>, box |-> <<2, 1, 2, 2>>],
         [logits |-> <<1, 0, 0>>, box |-> <<1, 1, 2, 2>>] >>,
      << [logits |-> <<0, 0, 1>>, box |-> <<1, 1, 0, 0>>],
         [logits |-> <<1, 0, 0>>, box |-> <<2, 1, 2, 2>>] >> }

\* The targets of one item: none, one, two, or one of zero area.
CriterionItemTargets ==
    { <<>>,
      << [label |-> 0, box |-> <<1, 1, 2, 2>>] >>,
      << [label |-> 1, box |-> <<2, 1, 2, 2>>], [label |-> 0, box |-> <<1, 1, 2, 2>>] >>,
      << [label |-> 1, box |-> <<1, 1, 0, 0>>] >> }

\* The values of self.losses tried.
LossesSet ==
    { <<"labels", "boxes", "cardinality">>,
      <<"labels", "boxes", "cardinality", "masks">>,
      <<"cardinality", "labels">> }

\* The outputs dict: logits and pred_boxes, pred_masks when the model
\* predicts masks, auxiliary_outputs when there are auxiliary layers.
CriterionOutputs(o, with_masks, aux) ==
    MkOutputs(o)
    @@ (IF with_masks
        THEN ("pred_masks" :> [b \in DOMAIN o |-> [q \in DOMAIN o[b] |-> <<"pred", b, q>>]])
        ELSE <<>>)
    @@ (IF aux # <<>>
        THEN ("auxiliary_outputs" :> [i \in DOMAIN aux |-> MkOutputs(aux[i])])
        ELSE <<>>)

\* The targets with a mask per target.
CriterionTargets(t) ==
    [b \in DOMAIN t |->
        [class_labels |-> [n \in DOMAIN t[b] |-> t[b][n].label],
         boxes        |-> [n \in DOMAIN t[b] |-> t[b][n].box],
         masks        |-> [n \in DOMAIN t[b] |-> <<"gt", b, n>>]]]

InitCriterion ==
    /\ \E losses \in LossesSet, with_masks \in BOOLEAN,
          o \in [1 .. BatchSize -> CriterionItemOutputs],
          aux \in SeqsUpTo([1 .. BatchSize -> CriterionItemOutputs], 0, MaxAux),
          t \in [1 .. BatchSize -> CriterionItemTargets] :
            criterion = [phase   |-> "called",
                         self    |-> SetCriterionInit(CriterionWeights,
                                                      Len(o[1][1].logits) - 1,
                                                      EosCoef, losses),
                         outputs |-> CriterionOutputs(o, with_masks, aux),
                         targets |-> CriterionTargets(t),
                         out     |-> Idle]
    /\ giou = Idle
    /\ matcher = Idle
    /\ cb = Idle
    /\ rvq = Idle
    /\ codec = Idle
    /\ encoder = Idle
    /\ pipeline = Idle
    /\ LaterIdle

CallCriterionForward ==
    /\ criterion.phase = "called"
    /\ criterion' = [criterion EXCEPT
                        !.phase = "returned",
                        !.out = SetCriterionForward(criterion.self, criterion.outputs,
                                                    criterion.targets)]
    /\ UNCHANGED <<giou, matcher, cb, rvq, codec, encoder, pipeline, detection, audio>>

NextCriterion == CallCriterionForward

SpecCriterion == InitCriterion /\ [][NextCriterion]_vars

\* The auxiliary layers of the call's outputs (none without the key).
CriterionAux ==
    IF "auxiliary_outputs" \in DOMAIN criterion.outputs
    THEN criterion.outputs.auxiliary_outputs ELSE <<>>

CriterionReturned == criterion.phase = "returned" /\ criterion.out.status = "ok"

AuxKey(k, i) == k \o "_" \o ToString(i)

\* C13: when the outputs carry auxiliary outputs and forward returns, then
\* for each auxiliary layer i and each requested loss other than "masks",
\* every key k of that loss has an entry k_i in the returned dict, equal to
\* that loss computed on layer i's outputs with the matching the matcher
\* finds on layer i's outputs; no loss_mask_i or loss_dice_i is returned;
\* the mask losses returned are those of the final layer's outputs.
C13_AuxLossesPerLayer ==
    (CriterionReturned /\ "auxiliary_outputs" \in DOMAIN criterion.outputs) =>
        /\ \A i \in 0 .. Len(CriterionAux) - 1 :
             \E m \in {HungarianMatcherForward(criterion.self.matcher,
                                               CriterionAux[i + 1], criterion.targets)} :
               /\ m.status = "ok"
               /\ \A n \in DOMAIN criterion.self.losses :
                    criterion.self.losses[n] # "masks" =>
                       \E d \in {get_loss(criterion.self, criterion.self.losses[n],
                                          CriterionAux[i + 1], criterion.targets,
                                          m.indices, criterion.out.num_boxes).losses} :
                          /\ d # <<>>
                          /\ \A k \in DOMAIN d :
                                /\ AuxKey(k, i) \in DOMAIN criterion.out.losses
                                /\ criterion.out.losses[AuxKey(k, i)] = d[k]
               /\ AuxKey("loss_mask", i) \notin DOMAIN criterion.out.losses
               /\ AuxKey("loss_dice", i) \notin DOMAIN criterion.out.losses
        /\ "loss_mask" \in DOMAIN criterion.out.losses =>
              \A n \in DOMAIN criterion.out.losses.loss_mask.args.src_masks :
                 \E b \in DOMAIN criterion.outputs.pred_masks :
                    \E q \in DOMAIN criterion.outputs.pred_masks[b] :
                       criterion.out.losses.loss_mask.args.src_masks[n]
                           = criterion.outputs.pred_masks[b][q]

\* A returned call with masks requested and one auxiliary layer whose
\* matching differs from the final layer's.
C13_Witness ==
    /\ CriterionReturned
    /\ Len(CriterionAux) >= 1
    /\ "loss_mask" \in DOMAIN criterion.out.losses
    /\ "loss_ce_0" \in DOMAIN criterion.out.losses
    /\ "loss_giou_0" \in DOMAIN criterion.out.losses
    /\ criterion.out.aux_indices[1] # criterion.out.indices

\* Queries of item b of the logits whose largest logit is reached by a class
\* other than the last.
PredictedObjects(logits, b) ==
    {q \in DOMAIN logits[b] :
        \E c \in 1 .. Len(logits[b][q]) - 1 :
            \A c2 \in DOMAIN logits[b][q] : logits[b][q][c] >= logits[b][q][c2]}

\* C14: the returned cardinality_error is the mean over the batch items of
\* |number of queries whose highest-scoring class is not no-object - number
\* of targets of the item|; it is zero when the two counts agree on every item.
C14_CardinalityError ==
    (CriterionReturned /\ "cardinality_error" \in DOMAIN criterion.out.losses) =>
        /\ FMul(criterion.out.losses.cardinality_error, Num(Len(criterion.targets)))
             = Num(SumSeq([b \in DOMAIN criterion.targets |->
                     Abs(Cardinality(PredictedObjects(criterion.outputs.logits, b))
                         - Len(criterion.targets[b].class_labels))]))
        /\ (\A b \in DOMAIN criterion.targets :
               Cardinality(PredictedObjects(criterion.outputs.logits, b))
                   = Len(criterion.targets[b].class_labels))
             => criterion.out.losses.cardinality_error = Num(0)

\* A returned call whose counts agree on every item, with targets present
\* and a query whose best class ties with no-object.
C14_Witness ==
    /\ CriterionReturned
    /\ "cardinality_error" \in DOMAIN criterion.out.losses
    /\ criterion.out.losses.cardinality_error = Num(0)
    /\ \A b \in DOMAIN criterion.targets :
          Cardinality(PredictedObjects(criterion.outputs.logits, b))
              = Len(criterion.targets[b].class_labels)
    /\ \E b \in DOMAIN criterion.targets :
          /\ Len(criterion.targets[b].class_labels) = 2
          /\ \E q \in DOMAIN criterion.outputs.logits[b] :
                criterion.outputs.logits[b][q] = <<0, 1, 1>>

\* The class the matching (rows, cols of one item) gives query q (1-based)
\* of an item with the given labels: its matched target's label, or
\* num_classes when no pair holds the query.
ExpectedTarget(num_classes, class_labels, pair, q) ==
    IF \E k \in DOMAIN pair[1] : pair[1][k] = q - 1
    THEN class_labels[pair[2][CHOOSE k \in DOMAIN pair[1] : pair[1][k] = q - 1] + 1]
    ELSE num_classes

\* The terms of a classification loss carry, for every query of every item
\* exactly once, the target class the given matching assigns.
TargetsFollow(loss_ce, logits, indices) ==
    /\ DOMAIN loss_ce = DOMAIN logits
    /\ \A b \in DOMAIN logits :
          /\ DOMAIN loss_ce[b] = DOMAIN logits[b]
          /\ \A q \in DOMAIN logits[b] :
                /\ Cardinality({k \in DOMAIN indices[b][1] : indices[b][1][k] = q - 1}) <= 1
                /\ loss_ce[b][q].target
                     = ExpectedTarget(criterion.self.num_classes,
                                      criterion.targets[b].class_labels, indices[b], q)
                /\ loss_ce[b][q].weight
                     = criterion.self.empty_weight[loss_ce[b][q].target + 1]
                /\ loss_ce[b][q].prob
                     = Softmax(logits[b][q])[loss_ce[b][q].target + 1]

\* C18: in the classification loss of the final layer and of every auxiliary
\* layer, each query has exactly one target class: the label of the target
\* the layer's matching pairs it with, or num_classes when it is unmatched.
C18_TargetClasses ==
    (CriterionReturned /\ "loss_ce" \in DOMAIN criterion.out.losses) =>
        /\ TargetsFollow(criterion.out.losses.loss_ce, criterion.outputs.logits,
                         criterion.out.indices)
        /\ \A i \in 0 .. Len(CriterionAux) - 1 :
              TargetsFollow(criterion.out.losses[AuxKey("loss_ce", i)],
                            CriterionAux[i + 1].logits, criterion.out.aux_indices[i + 1])

\* A returned call where an item has a query matched to a label-1 target and
\* an unmatched query.
C18_Witness ==
    /\ CriterionReturned
    /\ "loss_ce" \in DOMAIN criterion.out.losses
    /\ \E b \in DOMAIN criterion.targets :
          /\ Len(criterion.out.indices[b][1]) = 1
          /\ criterion.targets[b].class_labels = <<1>>
          /\ \E q1, q2 \in DOMAIN criterion.out.losses.loss_ce[b] :
                /\ criterion.out.losses.loss_ce[b][q1].target = 1
                /\ criterion.out.losses.loss_ce[b][q2].target = criterion.self.num_classes

TotalTargets == SumSeq([b \in DOMAIN criterion.targets |->
                           Len(criterion.targets[b].class_labels)])

\* The matched <<predicted box, target box>> pairs of a layer.
MatchedPairs(pred_boxes, indices) ==
    Concat([b \in DOMAIN indices |->
               [k \in DOMAIN indices[b][1] |->
                   <<pred_boxes[b][indices[b][1][k] + 1],
                     criterion.targets[b].boxes[indices[b][2][k] + 1]>>]])

\* The two box losses of a layer are the sums over its matched pairs of the
\* L1 distance and of 1 - GIoU, divided by the divisor.
BoxLossesOver(loss_bbox, loss_giou, pred_boxes, indices, divisor) ==
    LET pairs == MatchedPairs(pred_boxes, indices)
    IN  /\ FMul(loss_bbox, Num(divisor))
             = Num(SumSeq([n \in DOMAIN pairs |-> L1Dist(pairs[n][1], pairs[n][2])]))
        /\ FMul(loss_giou, Num(divisor))
             = FSum([n \in DOMAIN pairs |->
                       FSub(Num(1),
                            generalized_box_iou(
                                <<center_to_corners_format(pairs[n][1])>>,
                                <<center_to_corners_format(pairs[n][2])>>).value[1][1])])

\* C19: num_boxes is max(1, total number of targets of the batch); loss_bbox
\* and loss_giou of the final layer and of every auxiliary layer are sums
\* over the matched pairs divided by that one value; with no target in the
\* batch they are 0.
C19_Divisor ==
    CriterionReturned =>
        /\ criterion.out.num_boxes = Num(Max2(1, TotalTargets))
        /\ "loss_bbox" \in DOMAIN criterion.out.losses =>
              /\ BoxLossesOver(criterion.out.losses.loss_bbox, criterion.out.losses.loss_giou,
                               criterion.outputs.pred_boxes, criterion.out.indices,
                               Max2(1, TotalTargets))
              /\ \A i \in 0 .. Len(CriterionAux) - 1 :
                    BoxLossesOver(criterion.out.losses[AuxKey("loss_bbox", i)],
                                  criterion.out.losses[AuxKey("loss_giou", i)],
                                  CriterionAux[i + 1].pred_boxes,
                                  criterion.out.aux_indices[i + 1], Max2(1, TotalTargets))
              /\ TotalTargets = 0 =>
                    \A k \in DOMAIN criterion.out.losses :
                       k \in {"loss_bbox", "loss_giou"}
                             \cup {AuxKey("loss_bbox", i) : i \in 0 .. Len(CriterionAux) - 1}
                             \cup {AuxKey("loss_giou", i) : i \in 0 .. Len(CriterionAux) - 1}
                          => criterion.out.losses[k] = Num(0)

\* A returned call on a batch without targets, with box losses for the final
\* and an auxiliary layer.
C19_Witness ==
    /\ CriterionReturned
    /\ TotalTargets = 0
    /\ "loss_bbox" \in DOMAIN criterion.out.losses
    /\ "loss_giou_0" \in DOMAIN criterion.out.losses
    /\ criterion.out.losses.loss_bbox = Num(0)
    /\ criterion.out.losses.loss_giou_0 = Num(0)


(***************************************************************************)
(* TokenClassificationPipeline (pipelines/token_classification.py).        *)
(* A label and a strategy name are sequences of characters, so that split  *)
(* and upper are computed; a word is a string.  An entity is a dict, a     *)
(* function on its keys.                                                   *)
(***************************************************************************)
\* str.split(sep) on a sequence of characters.
RECURSIVE Split(_, _)
Split(str, sep) ==
    IF \A i \in DOMAIN str : str[i] # sep THEN <<str>>
    ELSE LET i == CHOOSE j \in DOMAIN str :
                     str[j] = sep /\ \A k \in 1 .. j - 1 : str[k] # sep
         IN  <<SubSeq(str, 1, i - 1)>> \o Split(SubSeq(str, i + 1, Len(str)), sep)

\* str.upper() on a sequence of characters.
Upper(str) ==
    LET up == [c \in {"a", "e", "f", "g", "i", "l", "m", "n", "o", "p", "r", "s", "t",
                      "v", "x"} |->
                 CASE c = "a" -> "A" [] c = "e" -> "E" [] c = "f" -> "F" [] c = "g" -> "G"
                   [] c = "i" -> "I" [] c = "l" -> "L" [] c = "m" -> "M" [] c = "n" -> "N"
                   [] c = "o" -> "O" [] c = "p" -> "P" [] c = "r" -> "R" [] c = "s" -> "S"
                   [] c = "t" -> "T" [] c = "v" -> "V" [] c = "x" -> "X"]
    IN  [i \in DOMAIN str |-> IF str[i] \in DOMAIN up THEN up[str[i]] ELSE str[i]]

\* The member names of the enum AggregationStrategy.
NONE == <<"N", "O", "N", "E">>

SIMPLE == <<"S", "I", "M", "P", "L", "E">>

FIRST == <<"F", "I", "R", "S", "T">>

AVERAGE == <<"A", "V", "E", "R", "A", "G", "E">>

MAX == <<"M", "A", "X">>

AggregationStrategy == {NONE, SIMPLE, FIRST, AVERAGE, MAX}

\* Constructor arguments: None, an enum member, a str, a bool.
PyNone == [tag |-> "None"]

Member(name) == [tag |-> "enum", name |-> name]

Str(chars) == [tag |-> "str", chars |-> chars]

Bool(b) == [tag |-> "bool", b |-> b]

List(items) == [tag |-> "list", items |-> items]

\* Python truthiness of an Optional[bool].
Truthy(v) == v.tag = "bool" /\ v.b

\* The strategies the constructor refuses for a slow tokenizer, MAX left out.
SubwordStrategiesNoMax == {Member(FIRST), Member(AVERAGE)}

\* The set tested at line 165.
SubwordStrategies == {Member(FIRST), Member(MAX), Member(AVERAGE)}

\* TokenClassificationPipeline.__init__ from line 142 on: the resolution of
\* aggregation_strategy and the check against a slow tokenizer.
TokenClassificationPipelineInit(tokenizer, grouped_entities, ignore_subwords, aggregation_strategy) ==
    LET from_flags ==
            IF grouped_entities # PyNone \/ ignore_subwords # PyNone
            THEN IF Truthy(grouped_entities) /\ Truthy(ignore_subwords) THEN Member(FIRST)
                 ELSE IF Truthy(grouped_entities) /\ ~Truthy(ignore_subwords)
                      THEN Member(SIMPLE)
                 ELSE Member(NONE)
            ELSE Member(NONE)
        given == IF aggregation_strategy = PyNone THEN from_flags ELSE aggregation_strategy
        Check(strategy) ==
            IF strategy \in SubwordStrategies /\ ~tokenizer.is_fast
            THEN [status |-> "ValueError", aggregation_strategy |-> PyNone]
            ELSE [status |-> "ok", aggregation_strategy |-> strategy]
    IN  IF given.tag = "str"
        THEN IF Upper(given.chars) \in AggregationStrategy
             THEN Check(Member(Upper(given.chars)))
             ELSE [status |-> "KeyError", aggregation_strategy |-> PyNone]
        ELSE Check(given)

\* np.nanmean of a list of scores.
nanmean(scores) ==
    LET kept == SelectSeq(scores, LAMBDA x : ~IsNaN(x))
    IN  IF kept = <<>> THEN NaN ELSE FDiv(FSum(kept), Num(Len(kept)))

\* tokenizer.convert_tokens_to_string: the tokens joined without separator.
RECURSIVE convert_tokens_to_string(_)
convert_tokens_to_string(tokens) ==
    IF tokens = <<>> THEN ""
    ELSE Head(tokens) \o convert_tokens_to_string(Tail(tokens))

\* max(entities, key=score) returning the last maximal element.
MaxEntityLast(entities) ==
    entities[CHOOSE j \in DOMAIN entities :
                /\ \A k \in DOMAIN entities : FLeq(entities[k].score, entities[j].score)
                /\ \A k \in DOMAIN entities :
                      k > j => FLess(entities[k].score, entities[j].score)]

\* max(entities, key=lambda entity: entity["score"]): the first maximal element.
MaxEntity(entities) ==
    entities[CHOOSE j \in DOMAIN entities :
                /\ \A k \in DOMAIN entities : FLeq(entities[k].score, entities[j].score)
                /\ \A k \in DOMAIN entities :
                      k < j => FLess(entities[k].score, entities[j].score)]

\* TokenClassificationPipeline.aggregate_word on List(entities), or on
\* PyNone when aggregate_words passes its unset word_group.
aggregate_word(id2label, word_group, aggregation_strategy) ==
    IF word_group = PyNone THEN [status |-> "TypeError", value |-> <<>>]
    ELSE
    LET entities == word_group.items
        word == convert_tokens_to_string([i \in DOMAIN entities |-> entities[i].word])
        New(entity, score) ==
            [status |-> "ok",
             value  |-> [entity |-> entity, score |-> score, word |-> word,
                         start |-> entities[1].start,
                         end |-> entities[Len(entities)].end]]
        Average(average_scores) ==
            New(id2label[ArgMaxFirst(average_scores) + 1],
                average_scores[ArgMaxFirst(average_scores) + 1])
        Max(max_entity) == New(max_entity.entity, max_entity.score)
    IN  CASE aggregation_strategy = Member(FIRST) ->
                New(entities[1].entity, entities[1].score)
          [] aggregation_strategy = Member(MAX) -> Max(MaxEntity(entities))
          [] aggregation_strategy = Member(AVERAGE) ->
                IF \E i \in DOMAIN entities : "scores" \notin DOMAIN entities[i]
                THEN [status |-> "KeyError", value |-> <<>>]
                ELSE Average([c \in DOMAIN id2label |->
                                 nanmean([i \in DOMAIN entities |-> entities[i].scores[c]])])
          [] OTHER -> [status |-> "ValueError", value |-> <<>>]

\* The loop of aggregate_words from entity i on, with the words built so far
\* and the open word_group, then the final aggregate_word.
RECURSIVE AggregateWordsLoop(_, _, _, _, _, _)
AggregateWordsLoop(id2label, entities, aggregation_strategy, i, word_entities, word_group) ==
    LET Flush(w, next_group, last) ==
            IF w.status # "ok" THEN w
            ELSE IF last THEN [status |-> "ok", value |-> Append(word_entities, w.value)]
            ELSE AggregateWordsLoop(id2label, entities, aggregation_strategy, i + 1,
                                    Append(word_entities, w.value), next_group)
    IN  IF i > Len(entities)
        THEN Flush(aggregate_word(id2label, word_group, aggregation_strategy), PyNone, TRUE)
        ELSE IF word_group = PyNone
        THEN AggregateWordsLoop(id2label, entities, aggregation_strategy, i + 1,
                                word_entities, List(<<entities[i]>>))
        ELSE IF "is_subword" \notin DOMAIN entities[i]
        THEN [status |-> "KeyError", value |-> <<>>]
        ELSE IF entities[i].is_subword
        THEN AggregateWordsLoop(id2label, entities, aggregation_strategy, i + 1,
                                word_entities, List(Append(word_group.items, entities[i])))
        ELSE Flush(aggregate_word(id2label, word_group, aggregation_strategy),
                   List(<<entities[i]>>), FALSE)

\* TokenClassificationPipeline.aggregate_words.
aggregate_words(id2label, entities, aggregation_strategy) ==
    IF aggregation_strategy \in {Member(NONE), Member(SIMPLE)}
    THEN [status |-> "AssertionError", value |-> <<>>]
    ELSE AggregateWordsLoop(id2label, entities, aggregation_strategy, 1, <<>>, PyNone)

\* TokenClassificationPipeline.group_sub_entities.
group_sub_entities(entities) ==
    LET parts == Split(entities[1].entity, "-")
    IN  [entity_group |-> parts[Len(parts)],
         score        |-> nanmean([i \in DOMAIN entities |-> entities[i].score]),
         word         |-> convert_tokens_to_string([i \in DOMAIN entities |-> entities[i].word]),
         start        |-> entities[1].start,
         end          |-> entities[Len(entities)].end]

\* The loop of group_entities from entity i on, then the final flush.
RECURSIVE GroupEntitiesLoop(_, _, _, _)
GroupEntitiesLoop(entities, i, entity_groups, entity_group_disagg) ==
    IF i > Len(entities)
    THEN [status |-> "ok",
          value  |-> IF entity_group_disagg # <<>>
                     THEN Append(entity_groups, group_sub_entities(entity_group_disagg))
                     ELSE entity_groups]
    ELSE IF entity_group_disagg = <<>>
    THEN GroupEntitiesLoop(entities, i + 1, entity_groups, <<entities[i]>>)
    ELSE
    LET entity == entities[i]
        last   == entity_group_disagg[Len(entity_group_disagg)]
        Decide(bi_tag, last_bi_tag) ==
            IF Len(bi_tag) # 2 \/ Len(last_bi_tag) # 2
            THEN [status |-> "ValueError", value |-> <<>>]
            ELSE IF "index" \in DOMAIN entity /\ "index" \notin DOMAIN last
            THEN [status |-> "KeyError", value |-> <<>>]
            ELSE IF /\ bi_tag[2] = last_bi_tag[2] /\ bi_tag[1] # <<"B">>
                    /\ ("index" \in DOMAIN entity => entity.index = last.index + 1)
            THEN GroupEntitiesLoop(entities, i + 1, entity_groups,
                                   Append(entity_group_disagg, entity))
            ELSE GroupEntitiesLoop(entities, i + 1,
                                   Append(entity_groups,
                                          group_sub_entities(entity_group_disagg)),
                                   <<entity>>)
    IN  Decide(Split(entity.entity, "-"), Split(last.entity, "-"))

\* TokenClassificationPipeline.group_entities.
group_entities(entities) == GroupEntitiesLoop(entities, 1, <<>>, <<>>)

\* TokenClassificationPipeline.aggregate.
aggregate(id2label, entities, aggregation_strategy) ==
    LET Group(words) == IF words.status # "ok" THEN words ELSE group_entities(words.value)
    IN  IF aggregation_strategy = Member(NONE) THEN [status |-> "ok", value |-> entities]
        ELSE IF aggregation_strategy # Member(SIMPLE)
        THEN Group(aggregate_words(id2label, entities, aggregation_strategy))
        ELSE group_entities(entities)

(***************************************************************************)
(* SpecPipeline: a pipeline is constructed, then one of its methods is     *)
(* called once on a list of entities.                                      *)
(***************************************************************************)
\* Entities in one call.
MaxEntities == 3

\* model.config.id2label.
Id2Label ==
    << <<"O">>, <<"B", "-", "X">>, <<"I", "-", "X">>, <<"B", "-", "Y">> >>

\* One classified token: its word, its per-label scores (the entity is the
\* first label of the largest score, the score that score) and whether it
\* continues the word before it.
TokenSet ==
    { [word |-> "Micro", is_subword |-> FALSE,
       scores |-> <<Num(0), Frac(3, 4), Frac(1, 4), Num(0)>>],
      [word |-> "soft", is_subword |-> TRUE,
       scores |-> <<Frac(1, 4), Num(0), Frac(3, 4), Num(0)>>],
      [word |-> "ware", is_subword |-> TRUE,
       scores |-> <<Num(0), Frac(1, 8), Frac(1, 8), Frac(3, 4)>>],
      [word |-> "Inc", is_subword |-> FALSE,
       scores |-> <<Frac(1, 8), Num(0), Frac(1, 2), Frac(3, 8)>>],
      [word |-> "Bob", is_subword |-> FALSE,
       scores |-> <<Num(0), Frac(1, 8), Num(0), Frac(7, 8)>>],
      [word |-> "the", is_subword |-> FALSE,
       scores |-> <<Frac(5, 8), Frac(1, 8), Frac(1, 8), Frac(1, 8)>>] }

\* How the entities carry token indices: consecutive, with one token
\* filtered out after the first, or without the key.
IndexModes == {"consecutive", "gap", "absent"}

\* The entity dicts __call__ builds (lines 245-266) for the kept tokens.
MkEntities(tokens, mode) ==
    [i \in DOMAIN tokens |->
        LET idx  == IF mode = "gap" /\ i > 1 THEN i + 1 ELSE i
            base == [word       |-> tokens[i].word,
                     score      |-> tokens[i].scores[ArgMaxFirst(tokens[i].scores) + 1],
                     entity     |-> Id2Label[ArgMaxFirst(tokens[i].scores) + 1],
                     start      |-> idx,
                     end        |-> idx + 1,
                     is_subword |-> tokens[i].is_subword,
                     scores     |-> tokens[i].scores]
        IN  IF mode = "absent" THEN base ELSE base @@ ("index" :> idx)]

EntityLists ==
    {MkEntities(tokens, mode) : tokens \in SeqsUpTo(TokenSet, 0, MaxEntities),
                                mode \in IndexModes}

\* id2label of a model whose X tag is written with a hyphen.
Id2LabelHyphen ==
    << <<"O">>, <<"B", "-", "X", "-", "Z">>, <<"I", "-", "X", "-", "Z">>, <<"B", "-", "Y">> >>

\* The entity dicts of the same tokens under another id2label.
Relabelled(entities, id2label) ==
    [i \in DOMAIN entities |->
        [entities[i] EXCEPT !.entity = id2label[ArgMaxFirst(entities[i].scores) + 1]]]

\* Values tried for the aggregation_strategy argument: None, the members,
\* and strings in several cases, one of them no member's name.
StrategyArgs ==
    {PyNone} \cup {Member(name) : name \in AggregationStrategy}
    \cup {Str(<<"f", "i", "r", "s", "t">>), Str(<<"M", "A", "X">>),
          Str(<<"A", "v", "e", "r", "a", "g", "e">>), Str(<<"s", "i", "m", "p", "l", "e">>),
          Str(<<"n", "o", "n", "e">>), Str(<<"m", "a", "x", "i">>)}

FlagArgs == {PyNone, Bool(TRUE), Bool(FALSE)}

NoPipelineCall == [op |-> "none", args |-> <<>>, out |-> <<>>]

InitPipeline ==
    /\ \E is_fast \in BOOLEAN :
          pipeline = [phase |-> "new", tokenizer |-> [is_fast |-> is_fast],
                      aggregation_strategy |-> PyNone, last |-> NoPipelineCall]
    /\ giou = Idle
    /\ matcher = Idle
    /\ cb = Idle
    /\ rvq = Idle
    /\ codec = Idle
    /\ criterion = Idle
    /\ encoder = Idle
    /\ LaterIdle

\* TokenClassificationPipeline(...): on success the pipeline holds the
\* resolved strategy, on an exception no pipeline exists.
NewPipeline ==
    /\ pipeline.phase = "new"
    /\ \E grouped_entities \in FlagArgs, ignore_subwords \in FlagArgs,
          aggregation_strategy \in StrategyArgs :
          \E r \in {TokenClassificationPipelineInit(pipeline.tokenizer, grouped_entities,
                                                    ignore_subwords, aggregation_strategy)} :
             pipeline' = [pipeline EXCEPT
                 !.phase = IF r.status = "ok" THEN "built" ELSE "raised",
                 !.aggregation_strategy = r.aggregation_strategy,
                 !.last = [op   |-> "__init__",
                           args |-> [grouped_entities |-> grouped_entities,
                                     ignore_subwords |-> ignore_subwords,
                                     aggregation_strategy |-> aggregation_strategy],
                           out  |-> r]]
    /\ UNCHANGED <<giou, matcher, cb, rvq, codec, criterion, encoder, detection, audio>>

\* self.aggregate(entities, self.aggregation_strategy), as __call__ does.
CallAggregate ==
    /\ pipeline.phase = "built"
    /\ \E entities \in EntityLists :
          pipeline' = [pipeline EXCEPT
              !.phase = "called",
              !.last = [op   |-> "aggregate",
                        args |-> [entities |-> entities,
                                  aggregation_strategy |-> pipeline.aggregation_strategy],
                        out  |-> aggregate(Id2Label, entities,
                                           pipeline.aggregation_strategy)]]
    /\ UNCHANGED <<giou, matcher, cb, rvq, codec, criterion, encoder, detection, audio>>

\* self.aggregate_words(entities, aggregation_strategy).
CallAggregateWords ==
    /\ pipeline.phase = "built"
    /\ \E entities \in EntityLists, name \in AggregationStrategy :
          pipeline' = [pipeline EXCEPT
              !.phase = "called",
              !.last = [op   |-> "aggregate_words",
                        args |-> [entities |-> entities,
                                  aggregation_strategy |-> Member(name)],
                        out  |-> aggregate_words(Id2Label, entities, Member(name))]]
    /\ UNCHANGED <<giou, matcher, cb, rvq, codec, criterion, encoder, detection, audio>>

\* self.group_entities(entities).
CallGroupEntities ==
    /\ pipeline.phase = "built"
    /\ \E entities \in EntityLists \cup {Relabelled(e, Id2LabelHyphen) : e \in EntityLists} :
          pipeline' = [pipeline EXCEPT
              !.phase = "called",
              !.last = [op   |-> "group_entities",
                        args |-> [entities |-> entities],
                        out  |-> group_entities(entities)]]
    /\ UNCHANGED <<giou, matcher, cb, rvq, codec, criterion, encoder, detection, audio>>

NextPipeline == NewPipeline \/ CallAggregate \/ CallAggregateWords \/ CallGroupEntities

SpecPipeline == InitPipeline /\ [][NextPipeline]_vars

\* The entities of the last call.
CalledEntities == pipeline.last.args.entities

\* The prefix character and the tag of a label "B-<tag>" or "I-<tag>"; a
\* label without prefix, such as "O", is its own tag.
HasPrefix(label) == Len(label) >= 2 /\ label[2] = "-"

LabelPrefix(label) == IF HasPrefix(label) THEN label[1] ELSE ""

LabelTag(label) == IF HasPrefix(label) THEN SubSeq(label, 3, Len(label)) ELSE label

\* Entity i (i >= 2) of the call continues the group of the entity before it.
SameGroup(i) ==
    /\ LabelTag(CalledEntities[i].entity) = LabelTag(CalledEntities[i - 1].entity)
    /\ LabelPrefix(CalledEntities[i].entity) # "B"
    /\ "index" \in DOMAIN CalledEntities[i] =>
          CalledEntities[i].index = CalledEntities[i - 1].index + 1

\* Entity i (i >= 2) of the call continues the word of the entity before it.
SameWord(i) == CalledEntities[i].is_subword

\* The positions at which a run starts, the last position of the run that
\* starts at s, and the rank of that run, for runs joined by Joins(i).
RunStarts(Joins(_)) ==
    {i \in DOMAIN CalledEntities : i = 1 \/ ~Joins(i)}

RunEnd(Joins(_), s) ==
    CHOOSE t \in s .. Len(CalledEntities) :
        /\ \A k \in s + 1 .. t : Joins(k)
        /\ t < Len(CalledEntities) => ~Joins(t + 1)

RunRank(Joins(_), s) == Cardinality({t \in RunStarts(Joins) : t <= s})

RECURSIVE JoinedWords(_, _)
JoinedWords(s, t) ==
    IF s > t THEN "" ELSE CalledEntities[s].word \o JoinedWords(s + 1, t)

\* C15: group_entities returns one group per maximal run of entities in
\* which each entity after the first has the tag of the entity before it, is
\* not a B- entity and, when it has an index, has the previous index + 1;
\* the group carries the run's tag and the joined words of the run.  So
\* "Micro" B-X, "soft" I-X give one group "Microsoft" / X, and two
\* consecutive B- entities are in different groups.
C15_GroupingRule ==
    pipeline.last.op = "group_entities" =>
        /\ pipeline.last.out.status = "ok"
        /\ Len(pipeline.last.out.value) = Cardinality(RunStarts(SameGroup))
        /\ \A s \in RunStarts(SameGroup) :
              \E g \in {pipeline.last.out.value[RunRank(SameGroup, s)]} :
                 /\ g.entity_group = LabelTag(CalledEntities[s].entity)
                 /\ g.word = JoinedWords(s, RunEnd(SameGroup, s))
                 /\ g.start = CalledEntities[s].start
                 /\ g.end = CalledEntities[RunEnd(SameGroup, s)].end

\* The values of the members of AggregationStrategy (lines 55-59).
StrategyValue(name) ==
    CASE name = NONE    -> <<"n", "o", "n", "e">>
      [] name = SIMPLE  -> <<"s", "i", "m", "p", "l", "e">>
      [] name = FIRST   -> <<"f", "i", "r", "s", "t">>
      [] name = AVERAGE -> <<"a", "v", "e", "r", "a", "g", "e">>
      [] name = MAX     -> <<"m", "a", "x">>

\* The constructor call asks for the named strategy: directly, as a string
\* (in any case), or through grouped_entities / ignore_subwords.
AskedFor(name) ==
    LET a == pipeline.last.args
    IN  \/ a.aggregation_strategy = Member(name)
        \/ /\ a.aggregation_strategy.tag = "str"
           /\ \/ a.aggregation_strategy.chars = StrategyValue(name)
              \/ a.aggregation_strategy.chars = name
        \/ /\ a.aggregation_strategy = PyNone
           /\ \/ name = FIRST /\ a.grouped_entities = Bool(TRUE)
                              /\ a.ignore_subwords = Bool(TRUE)
              \/ name = SIMPLE /\ a.grouped_entities = Bool(TRUE)
                               /\ a.ignore_subwords # Bool(TRUE)
              \/ name = NONE /\ a.grouped_entities # Bool(TRUE)

\* C16: constructing the pipeline with a tokenizer that is not fast raises
\* ValueError when the strategy asked for is first, max or average, and
\* succeeds with that strategy when it is none or simple.
C16_SlowTokenizer ==
    (pipeline.last.op = "__init__" /\ ~pipeline.tokenizer.is_fast) =>
        \A name \in AggregationStrategy :
            AskedFor(name) =>
                IF name \in {FIRST, MAX, AVERAGE}
                THEN pipeline.phase = "raised" /\ pipeline.last.out.status = "ValueError"
                ELSE pipeline.phase = "built" /\ pipeline.aggregation_strategy = Member(name)

\* A construction with a slow tokenizer and the string "MAX" that raised
\* ValueError.
C16_Witness ==
    /\ pipeline.last.op = "__init__"
    /\ ~pipeline.tokenizer.is_fast
    /\ pipeline.last.args.aggregation_strategy = Str(MAX)
    /\ pipeline.phase = "raised"
    /\ pipeline.last.out.status = "ValueError"

\* C17: aggregate_words under first or max returns one entity per word (a
\* token followed by its sub-word tokens); under first it has the first
\* token's tag and score, under max the tag and score of the word's token of
\* highest score, the earliest of them on a tie.
C17_WordTagAndScore ==
    (/\ pipeline.last.op = "aggregate_words"
     /\ pipeline.last.args.aggregation_strategy \in {Member(FIRST), Member(MAX)}
     /\ CalledEntities # <<>>) =>
        /\ pipeline.last.out.status = "ok"
        /\ Len(pipeline.last.out.value) = Cardinality(RunStarts(SameWord))
        /\ \A s \in RunStarts(SameWord) :
              \E w \in {pipeline.last.out.value[RunRank(SameWord, s)]} :
                 \E i \in s .. RunEnd(SameWord, s) :
                    /\ w.entity = CalledEntities[i].entity
                    /\ w.score = CalledEntities[i].score
                    /\ pipeline.last.args.aggregation_strategy = Member(FIRST) => i = s
                    /\ pipeline.last.args.aggregation_strategy = Member(MAX) =>
                          /\ \A k \in s .. RunEnd(SameWord, s) :
                                FLeq(CalledEntities[k].score, CalledEntities[i].score)
                          /\ \A k \in s .. i - 1 :
                                FLess(CalledEntities[k].score, CalledEntities[i].score)

\* aggregate_words under max on "Micro", "soft", "ware", whose three tokens
\* tie at the highest score with different tags, returned the first's tag.
C17_Witness ==
    /\ pipeline.last.op = "aggregate_words"
    /\ pipeline.last.args.aggregation_strategy = Member(MAX)
    /\ Len(CalledEntities) = 3
    /\ pipeline.last.out.status = "ok"
    /\ Len(pipeline.last.out.value) = 1
    /\ pipeline.last.out.value[1].word = "Microsoftware"
    /\ pipeline.last.out.value[1].entity = <<"B", "-", "X">>
    /\ CalledEntities[2].score = CalledEntities[1].score
    /\ CalledEntities[2].entity # CalledEntities[1].entity


(***************************************************************************)
(* DetrEncoderLayer.forward (modeling_detr.py), for dtype torch.float16.   *)
(***************************************************************************)
\* torch.finfo(torch.float16).max.
HalfMax == 65504

\* The float16 nearest to a finite integer v with 2^15 <= |v| <= HalfMax:
\* there float16 values are the multiples of 32, ties go to the even multiple.
RoundHalf(v) ==
    LET a    == Abs(v)
        lo   == (a \div 32) * 32
        near == IF a - lo < 16 THEN lo
                ELSE IF a - lo > 16 THEN lo + 32
                ELSE IF (lo \div 32) % 2 = 0 THEN lo ELSE lo + 32
    IN  IF v < 0 THEN -near ELSE near

\* torch.clamp(x, min=lo, max=hi) on one element of a float16 tensor: the
\* bounds are taken in the tensor's dtype, a NaN stays a NaN.
clamp(x, lo, hi) ==
    IF IsNaN(x) THEN x
    ELSE IF FLess(x, Num(RoundHalf(lo))) THEN Num(RoundHalf(lo))
    ELSE IF FLess(Num(RoundHalf(hi)), x) THEN Num(RoundHalf(hi))
    ELSE x

\* Lines 541-550: the clamp when some element is Inf or NaN, then the
\* returned tuple.
EncoderLayerReturn(hidden_states, attn_weights, output_attentions) ==
    LET clamp_value == HalfMax - 1000
        clamped ==
            IF \/ \E i \in DOMAIN hidden_states :
                     ~IsFinite(hidden_states[i]) /\ ~IsNaN(hidden_states[i])
               \/ \E i \in DOMAIN hidden_states : IsNaN(hidden_states[i])
            THEN [i \in DOMAIN hidden_states |->
                     clamp(hidden_states[i], -clamp_value, clamp_value)]
            ELSE hidden_states
    IN  IF output_attentions THEN <<clamped, attn_weights>> ELSE <<clamped>>

(***************************************************************************)
(* SpecEncoderLayer: one call of forward.  The attention, the feed-forward *)
(* layers and the layer norms are calls into torch; what final_layer_norm  *)
(* returns is any float16 tensor (it is NaN wherever a position's input    *)
(* held an Inf or a NaN).                                                  *)
(***************************************************************************)
\* Elements of the hidden states of one call.
MaxHidden == 3

\* float16 values: NaN, the infinities, and finite values up to the largest.
HalfValues ==
    {NaN, PInf, NInf, Num(0), Num(1), Frac(-3, 2), Num(64480), Num(64512),
     Num(HalfMax), Num(-HalfMax)}

InitEncoderLayer ==
    /\ \E output_attentions \in BOOLEAN :
          encoder = [phase |-> "called", output_attentions |-> output_attentions,
                     hidden_states |-> <<>>, attn_weights |-> "attn_weights",
                     out |-> <<>>]
    /\ giou = Idle
    /\ matcher = Idle
    /\ cb = Idle
    /\ rvq = Idle
    /\ codec = Idle
    /\ criterion = Idle
    /\ pipeline = Idle
    /\ LaterIdle

\* Lines 519-539: the sub-layers up to final_layer_norm have run.
EncoderSubLayers ==
    /\ encoder.phase = "called"
    /\ \E hidden_states \in SeqsUpTo(HalfValues, 1, MaxHidden) :
          encoder' = [encoder EXCEPT !.phase = "normed", !.hidden_states = hidden_states]
    /\ UNCHANGED <<giou, matcher, cb, rvq, codec, criterion, pipeline, detection, audio>>

\* Lines 541-550.
EncoderReturn ==
    /\ encoder.phase = "normed"
    /\ encoder' = [encoder EXCEPT
                      !.phase = "returned",
                      !.out = EncoderLayerReturn(encoder.hidden_states, encoder.attn_weights,
                                                 encoder.output_attentions)]
    /\ UNCHANGED <<giou, matcher, cb, rvq, codec, criterion, pipeline, detection, audio>>

NextEncoderLayer == EncoderSubLayers \/ EncoderReturn

SpecEncoderLayer == InitEncoderLayer /\ [][NextEncoderLayer]_vars

\* C20: when the hidden states held an Inf or a NaN, every returned value is
\* a number, neither Inf nor NaN, between -(dtype max - 1000) and
\* dtype max - 1000 (the bound as float16 holds it).
C20_ClampedFinite ==
    (/\ encoder.phase = "returned"
     /\ \E i \in DOMAIN encoder.hidden_states : ~IsFinite(encoder.hidden_states[i])) =>
        \A i \in DOMAIN encoder.out[1] :
            /\ IsFinite(encoder.out[1][i])
            /\ FLeq(Num(-RoundHalf(HalfMax - 1000)), encoder.out[1][i])
            /\ FLeq(encoder.out[1][i], Num(RoundHalf(HalfMax - 1000)))


(***************************************************************************)
(* DetrForObjectDetection.forward, the part run when labels are given      *)
(* (modeling_detr.py lines 1366-1402).  The decoder and the two prediction *)
(* heads are torch calls: what they return for each decoder layer that ran *)
(* is an input.  The heads applied to the decoder's last state give the    *)
(* final logits and boxes, so these are the last layer's.                  *)
(***************************************************************************)
\* DetrForObjectDetection._set_aux_loss: all layers but the last.
set_aux_loss(layer_outputs) ==
    [i \in 1 .. Len(layer_outputs) - 1 |-> layer_outputs[i]]

\* weight_dict without the auxiliary entries.
WeightDictNoAux(config) ==
    ("loss_ce" :> 1) @@ ("loss_bbox" :> config.bbox_loss_coefficient)
    @@ ("loss_giou" :> config.giou_loss_coefficient)

\* weight_dict of lines 1394-1400.
WeightDict(config) ==
    LET weight_dict == ("loss_ce" :> 1) @@ ("loss_bbox" :> config.bbox_loss_coefficient)
                       @@ ("loss_giou" :> config.giou_loss_coefficient)
        aux_keys == {<<k, i>> : k \in DOMAIN weight_dict, i \in 0 .. config.decoder_layers - 2}
        aux_weight_dict ==
            [k2 \in {p[1] \o "_" \o ToString(p[2]) : p \in aux_keys} |->
                weight_dict[(CHOOSE p \in aux_keys : p[1] \o "_" \o ToString(p[2]) = k2)[1]]]
    IN  IF config.auxiliary_loss THEN aux_weight_dict @@ weight_dict ELSE weight_dict

\* loss = sum(loss_dict[k] * weight_dict[k] for k in loss_dict if k in
\* weight_dict), kept as its terms (loss_ce is not a rational).
WeightedSum(loss_dict, weight_dict) ==
    [k \in DOMAIN loss_dict \cap DOMAIN weight_dict |->
        [weight |-> weight_dict[k], value |-> loss_dict[k]]]

\* Lines 1366-1402.  layers holds, per decoder layer that ran, the items'
\* logits and boxes.  Without return_dict the code takes outputs[-1], which
\* is an output of the encoder (DetrModel returns decoder_outputs +
\* encoder_outputs): its first dimension is the batch, so _set_aux_loss
\* yields batch - 1 entries with two-dimensional logits, on which the
\* matcher's out_prob[:, tgt_ids] raises IndexError.
ObjectDetectionLoss(config, return_dict, layers, labels) ==
    LET self == SetCriterionInit([class_cost |-> config.class_cost,
                                  bbox_cost |-> config.bbox_cost,
                                  giou_cost |-> config.giou_cost],
                                 config.num_labels, config.eos_coefficient,
                                 <<"labels", "boxes", "cardinality">>)
        final == MkOutputs(layers[Len(layers)])
        outputs_loss ==
            IF config.auxiliary_loss
            THEN final @@ ("auxiliary_outputs" :>
                              IF return_dict
                              THEN [i \in DOMAIN set_aux_loss(layers) |->
                                       MkOutputs(set_aux_loss(layers)[i])]
                              ELSE <<>>)
            ELSE final
        Raise(e) == [status |-> e, loss_dict |-> <<>>, weight_dict |-> <<>>, loss |-> <<>>]
        Total(c) ==
            IF c.status # "ok" THEN Raise(c.status)
            ELSE [status |-> "ok", loss_dict |-> c.losses, weight_dict |-> WeightDict(config),
                  loss |-> WeightedSum(c.losses, WeightDict(config))]
    IN  IF config.auxiliary_loss /\ ~return_dict /\ Len(labels) - 1 >= 1
        THEN Raise("IndexError")
        ELSE Total(SetCriterionForward(self, outputs_loss, labels))

(***************************************************************************)
(* SpecDetection: one call of the loss part on each input.                 *)
(***************************************************************************)
\* config.decoder_layers at most.
MaxDecoderLayers == 2

\* The configuration: the matcher costs and loss coefficients are the
\* defaults of DetrConfig (1, 5, 2; 5, 2; eos 0.1).
DetrConfigs ==
    {[auxiliary_loss |-> a, decoder_layers |-> n, class_cost |-> 1, bbox_cost |-> 5,
      giou_cost |-> 2, bbox_loss_coefficient |-> 5, giou_loss_coefficient |-> 2,
      num_labels |-> 2, eos_coefficient |-> EosCoef] :
        a \in BOOLEAN, n \in 1 .. MaxDecoderLayers}

InitDetection ==
    /\ \E config \in DetrConfigs, return_dict \in BOOLEAN,
          t \in [1 .. BatchSize -> CriterionItemTargets] :
          \E layers \in SeqsUpTo([1 .. BatchSize -> CriterionItemOutputs], 1,
                                 config.decoder_layers) :
             detection = [phase |-> "called", config |-> config,
                          return_dict |-> return_dict, layers |-> layers,
                          labels |-> CriterionTargets(t), out |-> Idle]
    /\ giou = Idle
    /\ matcher = Idle
    /\ cb = Idle
    /\ rvq = Idle
    /\ codec = Idle
    /\ criterion = Idle
    /\ encoder = Idle
    /\ pipeline = Idle
    /\ audio = Idle

CallObjectDetectionLoss ==
    /\ detection.phase = "called"
    /\ detection' = [detection EXCEPT
                        !.phase = "returned",
                        !.out = ObjectDetectionLoss(detection.config, detection.return_dict,
                                                    detection.layers, detection.labels)]
    /\ UNCHANGED <<giou, matcher, cb, rvq, codec, criterion, encoder, pipeline, audio>>

NextDetection == CallObjectDetectionLoss

SpecDetection == InitDetection /\ [][NextDetection]_vars

DetectionReturned == detection.phase = "returned" /\ detection.out.status = "ok"

\* The keys of one loss: the final layer's and every auxiliary layer's.
KeysOf(k) == {k} \cup {AuxKey(k, i) : i \in 0 .. MaxDecoderLayers}

\* The coefficient the configuration gives a weighted loss.
CoefficientOf(k) ==
    CASE k = "loss_ce"   -> 1
      [] k = "loss_bbox" -> detection.config.bbox_loss_coefficient
      [] k = "loss_giou" -> detection.config.giou_loss_coefficient

\* C21: every loss_ce, loss_bbox and loss_giou entry of the criterion's
\* dict, of the final layer or of an auxiliary layer i, has a weight in
\* weight_dict, the weight of k_i being that of k, and is a term
\* weight * value of the total; the cardinality_error entries, and nothing
\* else, are left out of the total.
C21_WeightedTotal ==
    DetectionReturned =>
        /\ \A k \in {"loss_ce", "loss_bbox", "loss_giou"} :
              \A k2 \in KeysOf(k) \cap DOMAIN detection.out.loss_dict :
                 /\ k2 \in DOMAIN detection.out.weight_dict
                 /\ detection.out.weight_dict[k2] = CoefficientOf(k)
                 /\ k2 \in DOMAIN detection.out.loss
                 /\ detection.out.loss[k2]
                      = [weight |-> CoefficientOf(k), value |-> detection.out.loss_dict[k2]]
        /\ \A k2 \in KeysOf("cardinality_error") : k2 \notin DOMAIN detection.out.loss
        /\ DOMAIN detection.out.loss \subseteq DOMAIN detection.out.loss_dict
        /\ DOMAIN detection.out.loss_dict \subseteq
              UNION {KeysOf(k) : k \in {"loss_ce", "loss_bbox", "loss_giou",
                                        "cardinality_error"}}
        /\ (detection.config.auxiliary_loss /\ Len(detection.layers) = 2)
              => "loss_ce_0" \in DOMAIN detection.out.loss_dict

\* A returned call with one auxiliary layer whose loss_giou_0 is in the
\* total with the giou coefficient, and whose cardinality_error_0 is not.
C21_Witness ==
    /\ DetectionReturned
    /\ detection.config.auxiliary_loss
    /\ "loss_giou_0" \in DOMAIN detection.out.loss
    /\ detection.out.loss["loss_giou_0"].weight = 2
    /\ detection.out.loss["loss_giou_0"].value # Num(0)
    /\ "cardinality_error_0" \in DOMAIN detection.out.loss_dict


(***************************************************************************)
(* The residual chain of ResidualVectorQuantization.encode (SpecRVQ)       *)
(***************************************************************************)
\* The running residual of encode after k stages, recomputed from the codes
\* it returned: residual = residual - layer.decode(indices), from x.
RECURSIVE ResidualAfter(_, _, _, _)
ResidualAfter(layers, x, codes, k) ==
    IF k = 0 THEN x
    ELSE TSub(ResidualAfter(layers, x, codes, k - 1),
              VectorQuantizationDecode(layers[k], codes[k]))

\* The state follows an encode of the quantizer, or the decode of its codes.
Encoded == rvq.phase = "live" /\ rvq.last.op \in {"encode", "vq.encode", "decode"}

VectorQuantizationForward(layer, x, draw) == CodebookForward(layer, x, draw)

\* The loop of ResidualVectorQuantization.forward over the layers given;
\* draws holds sample_vectors' draw for each layer.
RECURSIVE ForwardLoop(_, _, _, _)
ForwardLoop(layers, residual, quantized_out, draws) ==
    IF layers = <<>> THEN [layers |-> <<>>, quantized |-> quantized_out, codes |-> <<>>]
    ELSE LET Step(r) ==
                 LET rest == ForwardLoop(Tail(layers), TSub(residual, r.quantize),
                                         TAdd(quantized_out, r.quantize), Tail(draws))
                 IN  [layers |-> <<r.codebook>> \o rest.layers,
                      quantized |-> rest.quantized,
                      codes |-> <<r.embed_ind>> \o rest.codes]
         IN  Step(VectorQuantizationForward(Head(layers), residual, Head(draws)))

\* ResidualVectorQuantization.forward: the layers afterwards, quantized_out
\* and the index stack.
ResidualVectorQuantizationForward(layers, x, n_q, draws) ==
    LET Done(r) ==
            [layers |-> r.layers \o SubSeq(layers, Len(r.layers) + 1, Len(layers)),
             quantized |-> r.quantized, codes |-> r.codes]
    IN  Done(ForwardLoop(LayersUsed(layers, n_q), x, Tab([i \in DOMAIN x |-> ZeroVec]), draws))

\* ResidualVectorQuantizer.forward: the QuantizedResult and the quantizer
\* afterwards.
ResidualVectorQuantizerForward(self, x, frame_rate, bandwidth, draws) ==
    LET bw_per_q == get_bandwidth_per_quantizer(self, frame_rate)
        n_q      == get_num_quantizers_for_bandwidth(self, frame_rate, bandwidth)
        Result(r) == [self |-> [self EXCEPT !.vq.layers = r.layers],
                      quantized |-> r.quantized, codes |-> r.codes,
                      bandwidth |-> n_q * bw_per_q]
    IN  Result(ResidualVectorQuantizationForward(self.vq.layers, x, n_q, draws))

(***************************************************************************)
(* SpecRvqForward: the quantizer of SpecRVQ, in eval mode, and one call of *)
(* forward on it                                                           *)
(***************************************************************************)
\* sample_vectors' possible draws, one per layer; a layer that is inited
\* draws nothing.
RECURSIVE LayerDraws(_, _)
LayerDraws(layers, n) ==
    IF layers = <<>> THEN {<<>>}
    ELSE {<<h>> \o t :
            h \in (IF Head(layers).inited THEN {<<>>}
                   ELSE SampleIndices(n, Head(layers).codebook_size)),
            t \in LayerDraws(Tail(layers), n)}

\* quantizer.vq(x, n_q)
VqForward ==
    /\ rvq.phase = "live"
    /\ \E x \in Tensors, n_q \in 0 .. MaxLayers + 1 :
         \E draws \in LayerDraws(LayersUsed(rvq.self.vq.layers, n_q), Len(x)) :
            \E r \in {ResidualVectorQuantizationForward(rvq.self.vq.layers, x, n_q, draws)} :
               rvq' = [rvq EXCEPT !.phase = "returned", !.self.vq.layers = r.layers,
                                  !.last = [NoRvqCall EXCEPT
                                               !.op = "vq.forward", !.x = x, !.n_q = n_q,
                                               !.codes = r.codes,
                                               !.out = [quantized |-> r.quantized,
                                                        codes |-> r.codes]]]
    /\ UNCHANGED <<giou, matcher, cb, codec, criterion, encoder, pipeline, detection, audio>>

\* quantizer(x, frame_rate, bandwidth)
RvqForward ==
    /\ rvq.phase = "live"
    /\ \E x \in Tensors, frame_rate \in FrameRates, bandwidth \in BandwidthSet :
         \E draws \in LayerDraws(
                         LayersUsed(rvq.self.vq.layers,
                                    get_num_quantizers_for_bandwidth(rvq.self, frame_rate,
                                                                     bandwidth)),
                         Len(x)) :
            \E r \in {ResidualVectorQuantizerForward(rvq.self, x, frame_rate, bandwidth,
                                                     draws)} :
               rvq' = [rvq EXCEPT !.phase = "returned", !.self = r.self,
                                  !.last = [NoRvqCall EXCEPT
                                               !.op = "forward", !.x = x,
                                               !.frame_rate = frame_rate,
                                               !.bandwidth = bandwidth, !.codes = r.codes,
                                               !.out = [quantized |-> r.quantized,
                                                        codes |-> r.codes,
                                                        bandwidth |-> r.bandwidth]]]
    /\ UNCHANGED <<giou, matcher, cb, codec, criterion, encoder, pipeline, detection, audio>>

NextRvqForward == VqForward \/ RvqForward

\* The quantizers of InitRVQ; of the fresh ones those with two bins (a call on
\* a fresh quantizer with four bins has 256 draws per input).
InitRvqForward ==
    /\ InitRVQ
    /\ \/ rvq.self.bins = 2
       \/ \A k \in DOMAIN rvq.self.vq.layers : rvq.self.vq.layers[k].inited

SpecRvqForward == InitRvqForward /\ [][NextRvqForward]_vars

\* C24: for the same input, n_q and codebook state, forward outside
\* training mode returns the index stack encode returns, and its quantized
\* output is decode of that stack; also for codebooks created with k-means
\* initialisation that have not seen a batch.  (decode is taken on the
\* codebooks as forward leaves them.)
C24_ForwardIsEncode ==
    [][rvq'.last.op = "vq.forward" =>
          /\ rvq'.last.codes
                = ResidualVectorQuantizationEncode(rvq.self.vq.layers, rvq'.last.x,
                                                   rvq'.last.n_q)
          /\ rvq'.last.out.quantized
                = ResidualVectorQuantizationDecode(rvq'.self.vq.layers, rvq'.last.codes)]_vars

\* C25: the bandwidth of forward's QuantizedResult is the number of stages
\* whose codes are in result.codes times get_bandwidth_per_quantizer(
\* frame_rate), for every requested bandwidth.
C25_ReportedBandwidth ==
    rvq.phase = "returned" /\ rvq.last.op = "forward" =>
        rvq.last.out.bandwidth
            = Len(rvq.last.out.codes)
                 * get_bandwidth_per_quantizer(rvq.self, rvq.last.frame_rate)


(***************************************************************************)
(* The lengths of the EnCodec convolutions (modeling_encodec.py).  A       *)
(* tensor is represented by the length of its last dimension; the values   *)
(* play no part in any length.                                             *)
(***************************************************************************)
\* math.ceil of a finite value.
Ceil(f) == -((-f.n) \div f.d)

\* get_extra_padding_for_conv1d rounding the number of frames down.
get_extra_padding_for_conv1dFloor(length, kernel_size, stride, padding_total) ==
    LET n_frames == FAdd(FDiv(Num(length - kernel_size + padding_total), Num(stride)), Num(1))
        ideal_length == (Floor(n_frames) - 1) * stride + (kernel_size - padding_total)
    IN  ideal_length - length

\* get_extra_padding_for_conv1d for an input of the given length.
get_extra_padding_for_conv1d(length, kernel_size, stride, padding_total) ==
    LET n_frames == FAdd(FDiv(Num(length - kernel_size + padding_total), Num(stride)), Num(1))
        ideal_length == (Ceil(n_frames) - 1) * stride + (kernel_size - padding_total)
    IN  ideal_length - length

\* pad1d: the padded length, or the failed assertion.
pad1d(length, padding_left, padding_right, mode) ==
    IF ~(padding_left >= 0 /\ padding_right >= 0)
    THEN [status |-> "AssertionError", T |-> 0]
    ELSE IF mode = "reflect"
         THEN LET max_pad   == Max2(padding_left, padding_right)
                  extra_pad == IF length <= max_pad THEN max_pad - length + 1 ELSE 0
                  padded    == (length + extra_pad) + padding_left + padding_right
              IN  [status |-> "ok", T |-> padded - extra_pad]
         ELSE [status |-> "ok", T |-> length + padding_left + padding_right]

\* unpad1d: the length left, or the failed assertion.
unpad1d(length, padding_left, padding_right) ==
    IF ~(padding_left >= 0 /\ padding_right >= 0) \/ ~(padding_left + padding_right <= length)
    THEN [status |-> "AssertionError", T |-> 0]
    ELSE [status |-> "ok", T |-> (length - padding_right) - padding_left]

\* torch.nn.Conv1d without padding on the effective kernel size.
Conv1d(length, kernel_size, stride) ==
    IF length < kernel_size THEN [status |-> "RuntimeError", T |-> 0]
    ELSE [status |-> "ok", T |-> (length - kernel_size) \div stride + 1]

\* torch.nn.ConvTranspose1d without padding.
ConvTranspose1d(length, kernel_size, stride) == (length - 1) * stride + kernel_size

\* SConv1d.forward: the output length, with the extra padding and the length
\* given to the convolution.
SConv1dForward(T, kernel, stride, dilation, causal, pad_mode) ==
    LET kernel_size   == (kernel - 1) * dilation + 1
        padding_total == kernel_size - stride
        extra_padding == get_extra_padding_for_conv1d(T, kernel_size, stride, padding_total)
        padding_right == padding_total \div 2
        padding_left  == padding_total - padding_right
        x == IF causal THEN pad1d(T, padding_total, extra_padding, pad_mode)
             ELSE pad1d(T, padding_left, padding_right + extra_padding, pad_mode)
        Conv(y, padded) == [status |-> y.status, T |-> y.T,
                            extra_padding |-> extra_padding, padded |-> padded]
    IN  IF x.status # "ok"
        THEN [status |-> x.status, T |-> 0, extra_padding |-> extra_padding, padded |-> 0]
        ELSE Conv(Conv1d(x.T, kernel_size, stride), x.T)

\* SConvTranspose1d.forward without the trimming of the fixed padding.
SConvTranspose1dForwardNoTrim(T, kernel_size, stride, causal, trim_right_ratio) ==
    [status |-> "ok", T |-> ConvTranspose1d(T, kernel_size, stride)]

\* SConvTranspose1d.forward: the output length.
SConvTranspose1dForward(T, kernel_size, stride, causal, trim_right_ratio) ==
    LET padding_total == kernel_size - stride
        y == ConvTranspose1d(T, kernel_size, stride)
        padding_right == IF causal THEN Ceil(FMul(Num(padding_total), trim_right_ratio))
                         ELSE padding_total \div 2
        padding_left  == padding_total - padding_right
    IN  unpad1d(y, padding_left, padding_right)

\* The modules of a network: a convolution, a transposed convolution, a
\* residual block, or a module that keeps the length (activation, SLSTM).
ConvModule(kernel_size, stride, dilation) ==
    [kind |-> "SConv1d", kernel_size |-> kernel_size, stride |-> stride, dilation |-> dilation]

ConvTrModule(kernel_size, stride) ==
    [kind |-> "SConvTranspose1d", kernel_size |-> kernel_size, stride |-> stride, dilation |-> 1]

ResnetModule(kernel_size, dilation) ==
    [kind |-> "SEANetResnetBlock", kernel_size |-> kernel_size, stride |-> 1,
     dilation |-> dilation]

SameModule(name) == [kind |-> name, kernel_size |-> 1, stride |-> 1, dilation |-> 1]

\* SEANetResnetBlock.forward with true_skip False: shortcut(x) + block(x),
\* the block being the convolutions of kernel sizes [kernel_size, 1].
SEANetResnetBlockForward(T, m, causal) ==
    LET Second(first) == IF first.status = "ok"
                         THEN SConv1dForward(first.T, 1, 1, 1, causal, "reflect")
                         ELSE first
        Add(shortcut, block) ==
            IF shortcut.status # "ok" THEN [status |-> shortcut.status, T |-> 0]
            ELSE IF block.status # "ok" THEN [status |-> block.status, T |-> 0]
            ELSE IF shortcut.T # block.T THEN [status |-> "RuntimeError", T |-> 0]
            ELSE [status |-> "ok", T |-> block.T]
    IN  Add(SConv1dForward(T, 1, 1, 1, causal, "reflect"),
            Second(SConv1dForward(T, m.kernel_size, 1, m.dilation, causal, "reflect")))

\* One module's forward.
ModuleForward(T, m, causal) ==
    CASE m.kind = "SConv1d" ->
            LET Length(y) == [status |-> y.status, T |-> y.T]
            IN  Length(SConv1dForward(T, m.kernel_size, m.stride, m.dilation, causal,
                                      "reflect"))
      [] m.kind = "SConvTranspose1d" ->
            SConvTranspose1dForward(T, m.kernel_size, m.stride, causal, Num(1))
      [] m.kind = "SEANetResnetBlock" -> SEANetResnetBlockForward(T, m, causal)
      [] OTHER -> [status |-> "ok", T |-> T]

\* nn.Sequential.forward: the lengths after each module that ran.
RECURSIVE Sequential(_, _, _)
Sequential(model, T, causal) ==
    IF model = <<>> THEN [status |-> "ok", T |-> T, trace |-> <<>>]
    ELSE LET Join(T2, rest) ==
                 [status |-> rest.status, T |-> rest.T, trace |-> <<T2>> \o rest.trace]
             Rest(y) ==
                 IF y.status # "ok" THEN [status |-> y.status, T |-> 0, trace |-> <<>>]
                 ELSE Join(y.T, Sequential(Tail(model), y.T, causal))
         IN  Rest(ModuleForward(T, Head(model), causal))

\* a ** b.
RECURSIVE Power(_, _)
Power(a, b) == IF b = 0 THEN 1 ELSE a * Power(a, b - 1)

\* The residual blocks before a downsampling or after an upsampling layer.
ResidualLayers(n_residual_layers, residual_kernel_size, dilation_base) ==
    [j \in 1 .. n_residual_layers |->
        ResnetModule(residual_kernel_size, Power(dilation_base, j - 1))]

Reversed(s) == [i \in 1 .. Len(s) |-> s[Len(s) + 1 - i]]

\* SEANetEncoder.__init__'s module list with the default arguments
\* (kernel_size 7, last_kernel_size 7, residual_kernel_size 3,
\* dilation_base 2, lstm 2).
SEANetEncoderInit(ratios, n_residual_layers) ==
    <<ConvModule(7, 1, 1)>>
    \o Concat([i \in 1 .. Len(ratios) |->
                 ResidualLayers(n_residual_layers, 3, 2)
                 \o <<SameModule("ELU"),
                      ConvModule(Reversed(ratios)[i] * 2, Reversed(ratios)[i], 1)>>])
    \o <<SameModule("SLSTM"), SameModule("ELU"), ConvModule(7, 1, 1)>>

\* SEANetDecoder.__init__'s module list with the default arguments.
SEANetDecoderInit(ratios, n_residual_layers) ==
    <<ConvModule(7, 1, 1), SameModule("SLSTM")>>
    \o Concat([i \in 1 .. Len(ratios) |->
                 <<SameModule("ELU"), ConvTrModule(ratios[i] * 2, ratios[i])>>
                 \o ResidualLayers(n_residual_layers, 3, 2)])
    \o <<SameModule("ELU"), ConvModule(7, 1, 1)>>

\* range(0, length, stride) for a positive stride.
RangeOffsets(length, stride) ==
    [i \in 1 .. CeilDiv(length, stride) |-> (i - 1) * stride]

\* EnCodecModel.encode: per frame the number of code steps (scale is None,
\* normalize being False); segment_length is PyNone for segment None.
EnCodecModelEncode(self, length) ==
    LET segment_length == IF self.segment_length = PyNone THEN length
                          ELSE self.segment_length
        stride == IF self.segment_length = PyNone THEN length ELSE self.segment_stride
        frame(offset) == Min2(offset + segment_length, length) - offset
        offsets == RangeOffsets(length, stride)
        Frames(emb) ==
            IF \E i \in DOMAIN emb : emb[i].status # "ok"
            THEN [status |-> emb[CHOOSE i \in DOMAIN emb : emb[i].status # "ok"].status,
                  frames |-> <<>>, traces |-> <<>>]
            ELSE [status |-> "ok", frames |-> [i \in DOMAIN emb |-> emb[i].T],
                  traces |-> [i \in DOMAIN emb |-> emb[i].trace]]
    IN  Frames(Tab([i \in DOMAIN offsets |->
                      Sequential(self.encoder, frame(offsets[i]), self.causal)]))

\* EnCodecModel.decode for segment None: one frame, decoded.
EnCodecModelDecode(self, encoded_frames) ==
    IF Len(encoded_frames) # 1 THEN [status |-> "AssertionError", T |-> 0, trace |-> <<>>]
    ELSE Sequential(self.decoder, encoded_frames[1], self.causal)

\* EnCodecModel.forward: self.decode(frames)[:, :, :x.shape[-1]].
EnCodecModelForward(self, length) ==
    LET Sliced(frames, out) ==
            [status |-> out.status, T |-> Min2(out.T, length), frames |-> frames.frames,
             decoded |-> out.T, encoder_trace |-> frames.traces, decoder_trace |-> out.trace]
        Decoded(frames) ==
            Sliced(frames, IF frames.status = "ok" THEN EnCodecModelDecode(self, frames.frames)
                           ELSE [status |-> frames.status, T |-> 0, trace |-> <<>>])
    IN  Decoded(EnCodecModelEncode(self, length))

(***************************************************************************)
(* SpecAudio: an EnCodecModel as __init__ builds it (causal, segment None, *)
(* ratios 8, 5, 4, 2), one call of its forward on a waveform or of a       *)
(* single SConv1d layer.                                                   *)
(***************************************************************************)
\* Lengths given to a single convolution, its kernel sizes and strides.
MaxFrames == 9

MaxKernel == 4

MaxStride == 4

\* Waveform lengths: beyond one hop of 320 samples.
MaxWaveform == 330

\* EnCodecModel.__init__: causal is True, segment is None.
AudioModel ==
    [causal |-> TRUE, segment_length |-> PyNone, segment_stride |-> PyNone,
     encoder |-> SEANetEncoderInit(Ratios, 1), decoder |-> SEANetDecoderInit(Ratios, 1)]

InitAudio ==
    /\ audio = [phase |-> "live", self |-> AudioModel,
                last |-> [op |-> "none", args |-> <<>>, out |-> <<>>]]
    /\ giou = Idle
    /\ matcher = Idle
    /\ cb = Idle
    /\ rvq = Idle
    /\ codec = Idle
    /\ criterion = Idle
    /\ encoder = Idle
    /\ pipeline = Idle
    /\ detection = Idle

\* SConv1d(.., kernel_size, stride, dilation, causal)(x) with x of length T
CallSConv1d ==
    /\ audio.phase = "live"
    /\ \E T \in 1 .. MaxFrames, kernel_size \in 1 .. MaxKernel, stride \in 1 .. MaxStride,
          dilation \in {1, 2}, causal \in BOOLEAN :
         audio' = [audio EXCEPT !.phase = "returned", !.last =
                      [op |-> "SConv1d",
                       args |-> [T |-> T, kernel_size |-> kernel_size, stride |-> stride,
                                 dilation |-> dilation, causal |-> causal],
                       out |-> SConv1dForward(T, kernel_size, stride, dilation, causal,
                                              "reflect")]]
    /\ UNCHANGED <<giou, matcher, cb, rvq, codec, criterion, encoder, pipeline, detection>>

\* model(x) with x of the given length
CallModelForward ==
    /\ audio.phase = "live"
    /\ \E length \in 1 .. MaxWaveform :
         audio' = [audio EXCEPT !.phase = "returned", !.last =
                      [op |-> "forward", args |-> [length |-> length],
                       out |-> EnCodecModelForward(audio.self, length)]]
    /\ UNCHANGED <<giou, matcher, cb, rvq, codec, criterion, encoder, pipeline, detection>>

NextAudio == CallSConv1d \/ CallModelForward

SpecAudio == InitAudio /\ [][NextAudio]_vars


\* The state follows a call of a single SConv1d layer.
ConvCalled == audio.phase = "returned" /\ audio.last.op = "SConv1d"

\* The effective kernel size of the call, the one the padding is computed for.
EffectiveKernel == (audio.last.args.kernel_size - 1) * audio.last.args.dilation + 1

\* What get_extra_padding_for_conv1d returns for the call: e with
\* 0 <= e < stride and length + padding_total + e - kernel_size divisible by
\* stride, padding_total being kernel_size - stride.
ExtraPaddingFits ==
    LET T == audio.last.args.T
        k == EffectiveKernel
        s == audio.last.args.stride
        e == get_extra_padding_for_conv1d(T, k, s, k - s)
    IN  /\ audio.last.out.extra_padding = e
        /\ 0 <= e
        /\ e < s
        /\ (T + (k - s) + e - k) % s = 0

\* forward returned ceil(length / stride) frames and the last window ends at
\* the last sample of the padded input, the whole input being in it.
AllFramesNoneDropped ==
    LET T == audio.last.args.T
        k == EffectiveKernel
        s == audio.last.args.stride
    IN  /\ audio.last.out.status = "ok"
        /\ audio.last.out.T = CeilDiv(T, s)
        /\ audio.last.out.padded = T + (k - s) + audio.last.out.extra_padding
        /\ (audio.last.out.padded - k) % s = 0

\* C30 as stated: for every length, kernel_size and stride >= 1 the extra
\* padding fits and SConv1d.forward produces exactly ceil(length / stride)
\* frames, dropping no input sample.
C30_ConvFrames == ConvCalled => ExtraPaddingFits /\ AllFramesNoneDropped

\* C30, amended: the extra padding fits for every length, kernel_size and
\* stride >= 1; SConv1d.forward produces exactly ceil(length / stride)
\* frames and drops no sample when the (effective) kernel_size is at least
\* the stride; with a smaller kernel_size padding_total is negative and
\* forward fails pad1d's assertion, unless the layer is not causal,
\* kernel_size is stride - 1 and the extra padding is not 0.
C30_ConvFramesKernelAtLeastStride ==
    ConvCalled =>
        /\ ExtraPaddingFits
        /\ EffectiveKernel >= audio.last.args.stride => AllFramesNoneDropped
        /\ EffectiveKernel < audio.last.args.stride =>
              IF audio.last.args.causal
                 \/ EffectiveKernel < audio.last.args.stride - 1
                 \/ audio.last.out.extra_padding = 0
              THEN audio.last.out.status = "AssertionError"
              ELSE AllFramesNoneDropped

\* A dilated convolution with stride above 1 on a length that needs extra
\* padding.
C30_Witness ==
    /\ ConvCalled
    /\ audio.last.args.dilation = 2
    /\ audio.last.args.stride = 3
    /\ EffectiveKernel > audio.last.args.stride
    /\ audio.last.out.extra_padding = 2
    /\ audio.last.out.status = "ok"
    /\ audio.last.out.T = 3

\* The lengths entering each module of a network whose first input is T.
InputLengths(T, trace) == [i \in DOMAIN trace |-> IF i = 1 THEN T ELSE trace[i - 1]]

Expired(c, k) == FLess(c.cluster_size[k], Num(c.threshold_ema_dead_code))

\* C26: expire_codes_ with threshold_ema_dead_code > 0 changes only the rows
\* of embed whose cluster_size is below the threshold, each to a vector of
\* the given batch; the other rows of embed, and cluster_size, embed_avg and
\* inited, stay as they are.
C26_ExpiryTouchesDeadRowsOnly ==
    [][(cb'.last.op = "expire_codes_" /\ cb.c.threshold_ema_dead_code > 0) =>
          /\ \A k \in DOMAIN cb.c.embed :
                IF Expired(cb.c, k)
                THEN \E i \in DOMAIN cb'.last.x : cb'.c.embed[k] = cb'.last.x[i]
                ELSE cb'.c.embed[k] = cb.c.embed[k]
          /\ DOMAIN cb'.c.embed = DOMAIN cb.c.embed
          /\ cb'.c.cluster_size = cb.c.cluster_size
          /\ cb'.c.embed_avg = cb.c.embed_avg
          /\ cb'.c.inited = cb.c.inited]_vars

\* expire_codes_ has run on a codebook with one dead row, which now holds a
\* vector of the batch, and one live row, which holds a vector the batch
\* does not.
C26_Witness ==
    /\ cb.phase = "live"
    /\ cb.last.op = "expire_codes_"
    /\ cb.c.threshold_ema_dead_code > 0
    /\ \E k \in DOMAIN cb.c.embed :
          /\ Expired(cb.c, k)
          /\ \E i \in DOMAIN cb.last.x : cb.c.embed[k] = cb.last.x[i]
          /\ cb.c.embed[k] # cb.c.embed_avg[k]
    /\ \E k \in DOMAIN cb.c.embed :
          /\ ~Expired(cb.c, k)
          /\ \A i \in DOMAIN cb.last.x : cb.c.embed[k] # cb.last.x[i]


(***************************************************************************)
(* Independence of the batch items in HungarianMatcher.forward             *)
(* (SpecMatcher)                                                           *)
(***************************************************************************)
\* The batch of the call with every other item replaced by a copy of item b.
AlikeOutputs(b) ==
    [logits     |-> [i \in DOMAIN matcher.outputs.logits |-> matcher.outputs.logits[b]],
     pred_boxes |-> [i \in DOMAIN matcher.outputs.pred_boxes |->
                        matcher.outputs.pred_boxes[b]]]

AlikeTargets(b) == [i \in DOMAIN matcher.targets |-> matcher.targets[b]]

\* What forward returns for item b: its index pair, or the error raised.
AssignmentOf(out, b) ==
    IF out.status = "ok" THEN [status |-> "ok", pair |-> out.indices[b]]
    ELSE [status |-> out.status, pair |-> <<>>]

\* C27: forward's assignment for batch item b depends on item b's logits,
\* boxes and targets only: the batch of the call and the batch in which the
\* other items are replaced (here by copies of item b, which changes their
\* outputs and their numbers of targets) get the same assignment for item b.
C27_ItemsIndependent ==
    matcher.phase = "returned" =>
        \A b \in DOMAIN matcher.targets :
           LET Same(alike) ==
                   alike.status = "ok" => AssignmentOf(matcher.out, b) = AssignmentOf(alike, b)
           IN  Same(HungarianMatcherForward(matcher.w, AlikeOutputs(b), AlikeTargets(b)))


(***************************************************************************)
(* aggregate on no entities, and the groups of group_entities              *)
(* (SpecPipeline)                                                          *)
(***************************************************************************)
\* C28: for every aggregation strategy, aggregate applied to an empty list
\* of entities returns an empty list without raising.
C28_AggregateEmpty ==
    (pipeline.phase = "called" /\ pipeline.last.op = "aggregate"
        /\ pipeline.last.args.entities = <<>>) =>
        /\ pipeline.last.out.status = "ok"
        /\ pipeline.last.out.value = <<>>

\* Every entity of the call is labelled B-<tag> or I-<tag>.
AllLabelledBI ==
    \A i \in DOMAIN CalledEntities :
       /\ HasPrefix(CalledEntities[i].entity)
       /\ CalledEntities[i].entity[1] \in {"B", "I"}
       /\ Len(CalledEntities[i].entity) >= 3

\* The positions of the entities at which group g starts and ends.
FirstOf(g) == {i \in DOMAIN CalledEntities : CalledEntities[i].start = g.start}

LastOf(g) == {i \in DOMAIN CalledEntities : CalledEntities[i].end = g.end}

\* C29: group_entities partitions its input: for every list of entities
\* labelled B-<tag> or I-<tag>, each entity is in exactly one group, the
\* groups are runs of consecutive entities in input order, none is empty,
\* and a group's start and end are its first entity's start and its last
\* entity's end (its word being the run's joined words).
C29_GroupsPartition ==
    (pipeline.phase = "called" /\ pipeline.last.op = "group_entities" /\ AllLabelledBI) =>
        /\ pipeline.last.out.status = "ok"
        /\ LET groups == pipeline.last.out.value
               n      == Len(CalledEntities)
           IN  /\ n = 0 => groups = <<>>
               /\ n > 0 => Len(groups) >= 1
               /\ \A j \in DOMAIN groups :
                     \E s \in FirstOf(groups[j]) : \E t \in LastOf(groups[j]) :
                        /\ s <= t
                        /\ j = 1 => s = 1
                        /\ j = Len(groups) => t = n
                        /\ j > 1 => t - 1 >= 1 /\ s - 1 \in LastOf(groups[j - 1])
                        /\ groups[j].word = JoinedWords(s, t)

====
